---- MODULE Spec2Model ----
(***************************************************************************)
(* A model of tidwall/pair-rtree: the per-dimension R-trees (package 2d   *)
(* and package 3d) and the hybrid 2D/3D tree that dispatches to them and   *)
(* merges their nearest-neighbour streams.                                 *)
(*                                                                         *)
(* Items are integer handles (the pointer of a pair.Pair); their geometry  *)
(* (geobin dims and rectangle) is a function of the handle and of the      *)
(* layout number `seed` chosen in the initial state.  Coordinates are      *)
(* integers, so every float64 operation of the source is exact here.       *)
(* Tree nodes live in an arena: a function from node ids to node records,  *)
(* a child slot of a non-leaf node holds a node id, a child slot of a leaf *)
(* holds an item handle (the unsafe.Pointer of the source).                *)
(***************************************************************************)
EXTENDS Integers, Sequences, FiniteSets, TLC

VARIABLES
    seed,      \* the layout of the items' rectangles (an input, fixed by Init)
    tr2,       \* the 2D tree   (RTree of package 2d)
    tr3,       \* the 3D tree   (RTree of package 3d)
    sel,       \* 2 or 3: the tree a standalone-tree run exercises; 0 for the hybrid
    present,   \* ghost: the handles inserted and not removed since
    nIns,      \* ghost: number of Insert calls
    nRem,      \* ghost: number of Remove calls that targeted a stored item
    nOps,      \* ghost: number of Remove calls made (bounds the run)
    gone,      \* ghost: the handles removed and not inserted again
    res,       \* the last completed query: what it was given and what it did
    kpos,      \* KNN: the query point of the call in progress
    klimit,    \* KNN: the limit of the caller callback of the call in progress
    calls,     \* KNN: the invocations of the caller callback, in order
    mpc,       \* KNN: where the calling goroutine is
    kret,      \* KNN: the value the call returned
    fr,        \* KNN: the run of tr2.KNN (index 0) and of tr3.KNN (index 1)
    queues,    \* hybrid KNN: queues[0], queues[1] of the merge
    dones,     \* hybrid KNN: number of producers that signalled done
    exit,      \* hybrid KNN: the exit flag
    mu,        \* hybrid KNN: the holder of the mutex, or "free"
    mloc,      \* hybrid KNN: <<i, j>> of the consumer's drain loops
    inCb       \* ghost: the goroutines now inside the caller callback

treeVars == <<seed, tr2, tr3, sel, present, nIns, nRem, nOps, gone, res>>
muxVars == <<queues, dones, exit, mu, mloc, inCb>>
knnVars == <<kpos, klimit, calls, mpc, kret, fr, muxVars>>
vars == <<treeVars, knnVars>>

(***************************************************************************)
(* Bounds of the model.                                                    *)
(***************************************************************************)
MaxSeed == 1          \* layouts 0..MaxSeed
NTree2 == 10          \* items a standalone 2D tree (M = 9) may receive
NTree3 == 12          \* items a standalone 3D tree (M = 4) may receive
MaxRemoves == 1       \* Remove calls of a standalone-tree run
Grid == 7             \* coordinates of item corners lie in 0..Grid-1 (+ extent)
OptMaxEntries == 4    \* Options.MaxEntries given to a standalone 3D tree

(***************************************************************************)
(* Geometry of the items: geobin's Dims() and Rect().  Odd handles are 2D  *)
(* objects, even handles 3D objects.  A 2D object's rectangle has z = 0.   *)
(***************************************************************************)
Item2(k) == 2 * k - 1
Item3(k) == 2 * k
ItemIndex(h) == (h + 1) \div 2
GeoDims(h) == IF h % 2 = 1 THEN 2 ELSE 3

GeoRectMin(h) ==
    LET k == ItemIndex(h) IN
    << (3 * k + seed) % Grid,
       (5 * k + 2 * seed + GeoDims(h)) % Grid,
       IF GeoDims(h) = 2 THEN 0 ELSE ((2 * k + seed) % 5) - 2 >>

GeoRectMax(h) ==
    LET k == ItemIndex(h)
        lo == GeoRectMin(h)
    IN  << lo[1] + (k % 3),
           lo[2] + ((k + seed) % 2),
           IF GeoDims(h) = 2 THEN 0 ELSE lo[3] + (k % 2) >>

(***************************************************************************)
(* Rectangle algebra.  A box is a record with fields min and max, each a   *)
(* sequence of one coordinate per axis; a tree node is a box with more     *)
(* fields.  The 2D and 3D sources differ only in the number of axes.       *)
(***************************************************************************)
mathInfPos == 1000000
mathInfNeg == 0 - mathInfPos

mathMin(a, b) == IF a < b THEN a ELSE b
mathMax(a, b) == IF a > b THEN a ELSE b

RECURSIVE SeqProd(_)
SeqProd(s) == IF s = <<>> THEN 1 ELSE Head(s) * SeqProd(Tail(s))

RECURSIVE SeqSum(_)
SeqSum(s) == IF s = <<>> THEN 0 ELSE Head(s) + SeqSum(Tail(s))

extend(a, b) ==
    [a EXCEPT !.min = [i \in DOMAIN a.min |-> mathMin(a.min[i], b.min[i])],
              !.max = [i \in DOMAIN a.max |-> mathMax(a.max[i], b.max[i])]]

intersectionArea(a, b) ==
    SeqProd([i \in DOMAIN a.min |->
        mathMax(0, mathMin(a.max[i], b.max[i]) - mathMax(a.min[i], b.min[i]))])

area(a) == SeqProd([i \in DOMAIN a.min |-> a.max[i] - a.min[i]])

enlargedArea(a, b) ==
    SeqProd([i \in DOMAIN a.min |->
        mathMax(b.max[i], a.max[i]) - mathMin(b.min[i], a.min[i])])

\* A plausible slip: open intervals, so that boxes that only touch are missed.
intersectsOpen(a, b) ==
    \A i \in DOMAIN a.min : b.min[i] < a.max[i] /\ b.max[i] > a.min[i]

intersects(a, b) ==
    \A i \in DOMAIN a.min : b.min[i] <= a.max[i] /\ b.max[i] >= a.min[i]

\* A plausible slip: every box is taken to contain the other.
containsAlways(a, b) == TRUE

contains(a, b) ==
    \A i \in DOMAIN a.min : a.min[i] <= b.min[i] /\ b.max[i] <= a.max[i]

margin(a) == SeqSum([i \in DOMAIN a.min |-> a.max[i] - a.min[i]])

(***************************************************************************)
(* Nodes and trees.                                                        *)
(***************************************************************************)
defaultMaxEntries == 9

nil == 0

createNode(children, dim) ==
    [children |-> children, height |-> 1, leaf |-> TRUE,
     min |-> [i \in 1..dim |-> mathInfPos],
     max |-> [i \in 1..dim |-> mathInfNeg]]

\* New with the minimum rounded down instead of up.
NewFloor(dim, MaxEntries) ==
    LET M == mathMax(4, MaxEntries) IN
    [dim |-> dim,
     maxEntries |-> M,
     minEntries |-> mathMax(2, (4 * M) \div 10),
     data |-> 1,
     nodes |-> (1 :> createNode(<<>>, dim))]

\* New of package 2d (maxEntries is the constant 9) and New(opts) of package
\* 3d (opts.MaxEntries): maxEntries = max(4, MaxEntries), minEntries =
\* max(2, ceil(0.4 * maxEntries)).  The root is node 1.
New(dim, MaxEntries) ==
    LET M == mathMax(4, MaxEntries) IN
    [dim |-> dim,
     maxEntries |-> M,
     minEntries |-> mathMax(2, (4 * M + 9) \div 10),
     data |-> 1,
     nodes |-> (1 :> createNode(<<>>, dim))]

\* The box of an item as the tree of dimension dim reads it.
fillBBox(item, dim) ==
    [min |-> [i \in 1..dim |-> GeoRectMin(item)[i]],
     max |-> [i \in 1..dim |-> GeoRectMax(item)[i]]]

\* The box of child slot c of node n: an item's box in a leaf, else a node's.
childBox(tr, n, c) ==
    IF tr.nodes[n].leaf THEN fillBBox(c, tr.dim) ELSE tr.nodes[c]

RECURSIVE distBBoxLoop(_, _, _, _, _)
distBBoxLoop(tr, node, i, p, dest) ==
    IF i >= p THEN dest
    ELSE distBBoxLoop(tr, node, i + 1, p,
                      extend(dest, childBox(tr, node, tr.nodes[node].children[i + 1])))

\* distBBox(node, k, p, nil): the union of the boxes of children[k..p).
distBBox(tr, node, k, p) ==
    distBBoxLoop(tr, node, k, p, createNode(<<>>, tr.dim))

\* calcBBox(node): node.bbox := the union of all its children's boxes.
setBBox(tr, node, b) ==
    [tr EXCEPT !.nodes[node].min = b.min, !.nodes[node].max = b.max]

calcBBox(tr, node) ==
    setBBox(tr, node, distBBox(tr, node, 0, Len(tr.nodes[node].children)))

\* A node id not in use (the allocation of a new treeNode).
FreshId(tr) ==
    CHOOSE n \in 1..(Cardinality(DOMAIN tr.nodes) + 1) :
        /\ n \notin DOMAIN tr.nodes
        /\ \A k \in 1..(n - 1) : k \in DOMAIN tr.nodes

RECURSIVE Reach(_, _)
Reach(tr, n) ==
    IF tr.nodes[n].leaf THEN {n}
    ELSE {n} \cup UNION {Reach(tr, tr.nodes[n].children[i]) :
                            i \in 1..Len(tr.nodes[n].children)}

\* Nodes no pointer leads to any more are gone (garbage collection).
collect(tr) ==
    [tr EXCEPT !.nodes = [n \in Reach(tr, tr.data) |-> tr.nodes[n]]]

(***************************************************************************)
(* Insert engine.                                                          *)
(***************************************************************************)
\* The loop over node.children in chooseSubtree: acc carries minEnlargement,
\* minArea and targetNode.
RECURSIVE chooseSubtreeScan(_, _, _, _, _)
chooseSubtreeScan(tr, bbox, children, i, acc) ==
    IF i > Len(children) THEN acc
    ELSE
        LET child == children[i]
            a == area(tr.nodes[child])
            enlargement == enlargedArea(bbox, tr.nodes[child]) - a
            acc1 ==
                IF enlargement < acc.minEnlargement
                THEN [minEnlargement |-> enlargement,
                      minArea |-> IF a < acc.minArea THEN a ELSE acc.minArea,
                      targetNode |-> child]
                ELSE IF enlargement = acc.minEnlargement /\ a < acc.minArea
                THEN [acc EXCEPT !.minArea = a, !.targetNode = child]
                ELSE acc
        IN  chooseSubtreeScan(tr, bbox, children, i + 1, acc1)

RECURSIVE chooseSubtree(_, _, _, _, _, _)
chooseSubtree(tr, bbox, node, level, path, targetNode) ==
    LET path1 == Append(path, node) IN
    IF tr.nodes[node].leaf \/ Len(path1) - 1 = level
    THEN [node |-> node, path |-> path1]
    ELSE
        LET children == tr.nodes[node].children
            acc == chooseSubtreeScan(tr, bbox, children, 1,
                       [minEnlargement |-> mathInfPos, minArea |-> mathInfPos,
                        targetNode |-> targetNode])
            next == IF acc.targetNode # nil THEN acc.targetNode
                    ELSE IF Len(children) > 0 THEN children[1] ELSE nil
        IN  chooseSubtree(tr, bbox, next, level, path1, acc.targetNode)

\* Less of leafByDim / nodeByDim: the min coordinate of axis dim.
sortKey(tr, node, c, dim) == childBox(tr, node, c).min[dim]

\* One pass of insertion sort's inner loop: x moves left past every element
\* whose key is greater (data.Less(j, j-1)).
RECURSIVE insertSorted(_, _, _, _, _)
insertSorted(tr, node, s, x, dim) ==
    IF s # <<>> /\ sortKey(tr, node, x, dim) < sortKey(tr, node, s[Len(s)], dim)
    THEN Append(insertSorted(tr, node, SubSeq(s, 1, Len(s) - 1), x, dim), s[Len(s)])
    ELSE Append(s, x)

RECURSIVE insertionSort(_, _, _, _, _)
insertionSort(tr, node, s, i, dim) ==
    IF i > Len(tr.nodes[node].children) THEN s
    ELSE insertionSort(tr, node,
             insertSorted(tr, node, s, tr.nodes[node].children[i], dim), i + 1, dim)

\* sortNodes(node, dim): sort.Sort on at most 12 elements is an insertion sort.
sortNodes(tr, node, dim) ==
    [tr EXCEPT !.nodes[node].children = insertionSort(tr, node, <<>>, 1, dim)]

\* for i = m; i < M-m; i++ { leftBBox.extend(child); margin += leftBBox.margin() }
RECURSIVE marginUp(_, _, _, _, _, _)
marginUp(tr, node, i, hi, leftBBox, mg) ==
    IF i >= hi THEN [leftBBox |-> leftBBox, margin |-> mg]
    ELSE LET l == extend(leftBBox, childBox(tr, node, tr.nodes[node].children[i + 1]))
         IN  marginUp(tr, node, i + 1, hi, l, mg + margin(l))

\* for i = M-m-1; i >= m; i-- { leftBBox.extend(child); margin += rightBBox.margin() }
RECURSIVE marginDown(_, _, _, _, _, _, _)
marginDown(tr, node, i, lo, leftBBox, rightBBox, mg) ==
    IF i < lo THEN mg
    ELSE LET l == extend(leftBBox, childBox(tr, node, tr.nodes[node].children[i + 1]))
         IN  marginDown(tr, node, i - 1, lo, l, rightBBox, mg + margin(rightBBox))

\* allDistMargin after its sortNodes: the margin statistic of the sorted node.
allDistMarginSorted(tr, node, m, M) ==
    LET leftBBox == distBBox(tr, node, 0, m)
        rightBBox == distBBox(tr, node, M - m, M)
        up == marginUp(tr, node, m, M - m, leftBBox,
                       margin(leftBBox) + margin(rightBBox))
    IN  [tr |-> tr,
         margin |-> marginDown(tr, node, M - m - 1, m, up.leftBBox, rightBBox,
                               up.margin)]

\* allDistMargin sorts the node by axis dim (and leaves it sorted) and returns
\* the margin statistic.
allDistMargin(tr, node, m, M, dim) ==
    allDistMarginSorted(sortNodes(tr, node, dim), node, m, M)

\* A plausible slip: the comparison the other way round (the node ends sorted
\* by x when x's margin is not the smaller one).
sortByMinMargin2Max(x, y, node) ==
    IF x.margin < y.margin THEN y.tr ELSE sortNodes(y.tr, node, 1)

\* chooseSplitAxis of package 2d: x and y are the results of allDistMargin on
\* axis 1 and then on axis 2 (the node is left sorted by the last one).
sortByMinMargin2(x, y, node) ==
    IF x.margin < y.margin THEN sortNodes(y.tr, node, 1) ELSE y.tr

chooseSplitAxisY2(x, node, m, M) ==
    sortByMinMargin2(x, allDistMargin(x.tr, node, m, M, 2), node)

chooseSplitAxis2(tr, node, m, M) ==
    chooseSplitAxisY2(allDistMargin(tr, node, m, M, 1), node, m, M)

\* chooseSplitAxis of package 3d: the same over three axes.
sortByMinMargin3(x, y, z, node) ==
    IF x.margin < y.margin
    THEN (IF x.margin < z.margin THEN sortNodes(z.tr, node, 1) ELSE z.tr)
    ELSE IF y.margin < z.margin THEN sortNodes(z.tr, node, 2)
    ELSE z.tr

chooseSplitAxisZ3(x, y, node, m, M) ==
    sortByMinMargin3(x, y, allDistMargin(y.tr, node, m, M, 3), node)

chooseSplitAxisY3(x, node, m, M) ==
    chooseSplitAxisZ3(x, allDistMargin(x.tr, node, m, M, 2), node, m, M)

chooseSplitAxis3(tr, node, m, M) ==
    chooseSplitAxisY3(allDistMargin(tr, node, m, M, 1), node, m, M)

chooseSplitAxis(tr, node, m, M) ==
    IF tr.dim = 2 THEN chooseSplitAxis2(tr, node, m, M)
    ELSE chooseSplitAxis3(tr, node, m, M)

\* The loop of chooseSplitIndex: acc carries minOverlap, minArea and index.
RECURSIVE chooseSplitIndexLoop(_, _, _, _, _, _)
chooseSplitIndexLoop(tr, node, i, m, M, acc) ==
    IF i > M - m THEN acc
    ELSE
        LET bbox1 == distBBox(tr, node, 0, i)
            bbox2 == distBBox(tr, node, i, M)
            overlap == intersectionArea(bbox1, bbox2)
            a == area(bbox1) + area(bbox2)
            acc1 ==
                IF overlap < acc.minOverlap
                THEN [minOverlap |-> overlap, index |-> i,
                      minArea |-> IF a < acc.minArea THEN a ELSE acc.minArea]
                ELSE IF overlap = acc.minOverlap /\ a < acc.minArea
                THEN [acc EXCEPT !.minArea = a, !.index = i]
                ELSE acc
        IN  chooseSplitIndexLoop(tr, node, i + 1, m, M, acc1)

\* A plausible slip: the split leaves one child for the new node.
chooseSplitIndexLast(tr, node, m, M) == M - 1

\* A plausible slip: the split leaves one child in the node.
chooseSplitIndexOne(tr, node, m, M) == 1

chooseSplitIndex(tr, node, m, M) ==
    chooseSplitIndexLoop(tr, node, m, m, M,
        [minOverlap |-> mathInfPos, minArea |-> mathInfPos, index |-> 0]).index

\* A plausible slip: the new root is given the height of the node it replaces.
splitRootSameHeight(tr, node, newNode) ==
    LET id == FreshId(tr)
        root == [createNode(<<node, newNode>>, tr.dim) EXCEPT
                    !.height = tr.nodes[node].height, !.leaf = FALSE]
    IN  calcBBox([tr EXCEPT !.data = id, !.nodes = @ @@ (id :> root)], id)

\* splitRoot: a new root above node and newNode.
splitRoot(tr, node, newNode) ==
    LET id == FreshId(tr)
        root == [createNode(<<node, newNode>>, tr.dim) EXCEPT
                    !.height = tr.nodes[node].height + 1, !.leaf = FALSE]
    IN  calcBBox([tr EXCEPT !.data = id, !.nodes = @ @@ (id :> root)], id)

\* A plausible slip: the new node joins the parent even when the parent is
\* the node that was split (level 0), and no new root is made.
splitLinkNoRoot(tr, path, level, newId) ==
    [tr EXCEPT !.nodes[path[mathMax(level, 1)]].children = Append(@, newId)]

\* The end of split: the new node joins the parent, or the root is split.
splitLink(tr, path, level, newId) ==
    IF level # 0
    THEN [tr EXCEPT !.nodes[path[level]].children = Append(@, newId)]
    ELSE splitRoot(tr, path[level + 1], newId)

\* The middle of split: children[splitIndex:] move to the new node newId,
\* and both boxes are recomputed.
splitAt(tr, path, level, splitIndex, newId) ==
    LET node == path[level + 1]
        ch == tr.nodes[node].children
        newNode == [createNode(SubSeq(ch, splitIndex + 1, Len(ch)), tr.dim) EXCEPT
                       !.height = tr.nodes[node].height,
                       !.leaf = tr.nodes[node].leaf]
    IN  splitLink(
            calcBBox(calcBBox(
                [tr EXCEPT !.nodes =
                    [@ EXCEPT ![node].children = SubSeq(ch, 1, splitIndex)]
                    @@ (newId :> newNode)],
                node), newId),
            path, level, newId)

\* split once chooseSplitAxis has sorted the node.
splitSorted(tr, path, level, m, M) ==
    splitAt(tr, path, level, chooseSplitIndex(tr, path[level + 1], m, M), FreshId(tr))

\* split(insertPath, level): path is 1-based here, insertPath[level] is
\* path[level + 1].
split(tr, path, level) ==
    splitSorted(chooseSplitAxis(tr, path[level + 1], tr.minEntries,
                                Len(tr.nodes[path[level + 1]].children)),
                path, level, tr.minEntries, Len(tr.nodes[path[level + 1]].children))

\* A plausible slip: an overflowing node is never split.
splitLoopNever(tr, path, level) == [tr |-> tr, level |-> level]

\* for level >= 0 { if len(insertPath[level].children) > maxEntries
\*                  { split; level-- } else break }
RECURSIVE splitLoop(_, _, _)
splitLoop(tr, path, level) ==
    IF level >= 0 /\ Len(tr.nodes[path[level + 1]].children) > tr.maxEntries
    THEN splitLoop(split(tr, path, level), path, level - 1)
    ELSE [tr |-> tr, level |-> level]

\* A plausible slip: the boxes of the path are left as they were.
adjustParentBBoxesNot(tr, bbox, path, level) == tr

adjustParentBBoxes(tr, bbox, path, level) ==
    [tr EXCEPT !.nodes =
        [n \in DOMAIN @ |->
            IF \E i \in 0..level : path[i + 1] = n THEN extend(@[n], bbox) ELSE @[n]]]

\* The end of insert: sp is what the split loop left (the tree and level).
insertAdjust(sp, bbox, path) == adjustParentBBoxes(sp.tr, bbox, path, sp.level)

\* insert once chooseSubtree has found the node and the path (cs).
insertAt(tr, bbox, item, level, cs) ==
    insertAdjust(
        splitLoop([tr EXCEPT !.nodes[cs.node] =
                      extend([@ EXCEPT !.children = Append(@, item)], bbox)],
                  cs.path, level),
        bbox, cs.path)

insert(tr, bbox, item, level) ==
    insertAt(tr, bbox, item, level, chooseSubtree(tr, bbox, tr.data, level, <<>>, nil))

\* RTree.Insert / insertBBox.
Insert(tr, item) ==
    insert(tr, fillBBox(item, tr.dim), item, tr.nodes[tr.data].height - 1)

(***************************************************************************)
(* Delete engine.                                                          *)
(***************************************************************************)
\* A plausible slip: the -1 of an absent pointer is used as an index from the
\* end of the slice.
indexOfOrLast(children, ptr) ==
    IF \E i \in 1..Len(children) : children[i] = ptr
    THEN CHOOSE i \in 1..Len(children) :
            children[i] = ptr /\ \A j \in 1..(i - 1) : children[j] # ptr
    ELSE Len(children)

\* index of ptr in a children slice, 0 if absent (findItem and the sibling
\* search of condense return -1 for absent, indexes are 1-based here).
indexOf(children, ptr) ==
    IF \E i \in 1..Len(children) : children[i] = ptr
    THEN CHOOSE i \in 1..Len(children) :
            children[i] = ptr /\ \A j \in 1..(i - 1) : children[j] # ptr
    ELSE 0

findItem(item, tr, node) == indexOf(tr.nodes[node].children, item)

\* A plausible slip: the copy without the truncation (the last element stays).
removeAtNoShrink(s, index) ==
    SubSeq(s, 1, index - 1) \o SubSeq(s, index + 1, Len(s)) \o <<s[Len(s)]>>

\* copy(s[index:], s[index+1:]); s = s[:len(s)-1]
removeAt(s, index) == SubSeq(s, 1, index - 1) \o SubSeq(s, index + 1, Len(s))

\* A plausible slip: an emptied root is left as it is (no fresh leaf).
RECURSIVE condenseLoopKeepRoot(_, _, _)
condenseLoopKeepRoot(tr, path, i) ==
    IF i < 1 THEN tr
    ELSE IF Len(tr.nodes[path[i]].children) = 0
    THEN IF i > 1
         THEN condenseLoopKeepRoot(
                  [tr EXCEPT !.nodes[path[i - 1]].children =
                      SelectSeq(@, LAMBDA c : c # path[i])],
                  path, i - 1)
         ELSE tr
    ELSE condenseLoopKeepRoot(calcBBox(tr, path[i]), path, i - 1)

\* condense(path): from the deepest node of the path upward.
RECURSIVE condenseLoop(_, _, _)
condenseLoop(tr, path, i) ==
    IF i < 1 THEN tr
    ELSE IF Len(tr.nodes[path[i]].children) = 0
    THEN IF i > 1
         THEN LET siblings == tr.nodes[path[i - 1]].children
                  index == indexOf(siblings, path[i])
              IN  condenseLoop(
                      [tr EXCEPT !.nodes[path[i - 1]].children = removeAt(siblings, index)],
                      path, i - 1)
         ELSE LET id == FreshId(tr) IN
              condenseLoop(
                  [tr EXCEPT !.data = id,
                             !.nodes = @ @@ (id :> createNode(<<>>, tr.dim))],
                  path, i - 1)
    ELSE condenseLoop(calcBBox(tr, path[i]), path, i - 1)

\* A plausible slip: a root left with one child node gives way to that child.
condenseCollapse(tr, path) ==
    LET t == condenseLoop(tr, path, Len(path)) IN
    collect(IF ~t.nodes[t.data].leaf /\ Len(t.nodes[t.data].children) = 1
            THEN [t EXCEPT !.data = t.nodes[t.data].children[1]]
            ELSE t)

condense(tr, path) == collect(condenseLoop(tr, path, Len(path)))

\* The search loop of removeBBox.  s is the loop's state: node, path, indexes,
\* i, parent, goingUp (i counts children from 0 as in the source), and
\* visited, the sequence of nodes the loop body ran on (a ghost).
RECURSIVE removeLoop(_, _, _, _)
removeLoop(tr, item, bbox, s) ==
    IF ~(s.node # nil \/ Len(s.path) # 0)
    THEN [tr |-> tr, found |-> FALSE, visited |-> s.visited]
    ELSE
        LET s1 == IF s.node = nil
                  THEN [s EXCEPT
                          !.node = s.path[Len(s.path)],
                          !.path = SubSeq(s.path, 1, Len(s.path) - 1),
                          !.parent = IF Len(s.path) - 1 = 0 THEN nil
                                     ELSE s.path[Len(s.path) - 1],
                          !.i = s.indexes[Len(s.indexes)],
                          !.indexes = SubSeq(s.indexes, 1, Len(s.indexes) - 1),
                          !.goingUp = TRUE]
                  ELSE s
            node == s1.node
            n == tr.nodes[node]
            index == IF n.leaf THEN findItem(item, tr, node) ELSE 0
            vis == Append(s1.visited, node)
        IN
        IF n.leaf /\ index # 0
        THEN [tr |-> condense([tr EXCEPT !.nodes[node].children = removeAt(@, index)],
                              Append(s1.path, node)),
              found |-> TRUE, visited |-> vis]
        ELSE IF ~s1.goingUp /\ ~n.leaf /\ contains(n, bbox)
        THEN removeLoop(tr, item, bbox,
                 [s1 EXCEPT !.path = Append(@, node),
                            !.indexes = Append(@, s1.i),
                            !.i = 0, !.parent = node,
                            !.node = n.children[1], !.visited = vis])
        ELSE IF s1.parent # nil
        THEN LET i1 == s1.i + 1
                 pch == tr.nodes[s1.parent].children
             IN  removeLoop(tr, item, bbox,
                     [s1 EXCEPT !.i = i1,
                                !.node = IF i1 = Len(pch) THEN nil ELSE pch[i1 + 1],
                                !.goingUp = FALSE, !.visited = vis])
        ELSE removeLoop(tr, item, bbox, [s1 EXCEPT !.node = nil, !.visited = vis])

\* A plausible slip: the search starts as if it were on its way up, so it
\* never goes down from a root that is not a leaf.
removeBBoxGoingUp(tr, item, bbox) ==
    removeLoop(tr, item, bbox,
        [node |-> tr.data, path |-> <<>>, indexes |-> <<>>, i |-> 0,
         parent |-> nil, goingUp |-> TRUE, visited |-> <<>>])

removeBBox(tr, item, bbox) ==
    removeLoop(tr, item, bbox,
        [node |-> tr.data, path |-> <<>>, indexes |-> <<>>, i |-> 0,
         parent |-> nil, goingUp |-> FALSE, visited |-> <<>>])

\* RTree.Remove.
Remove(tr, item) == removeBBox(tr, item, fillBBox(item, tr.dim)).tr

(***************************************************************************)
(* Queries.  A caller callback is modelled by its limit: it returns true   *)
(* on its first `limit` invocations and false on the next one; NoLimit is  *)
(* the callback that always returns true.  A query's result is the         *)
(* sequence of the callback's invocations and the value returned.          *)
(***************************************************************************)
NoLimit == 0 - 1

\* iter(item) invoked after the invocations in calls: what it returns.
iterReturns(cs, limit) == limit = NoLimit \/ Len(cs) < limit

\* search(node, bbox, iter); st is [calls, ok], ok false once iter returned
\* false (every loop then returns false at once).
RECURSIVE search(_, _, _, _, _)
RECURSIVE searchChildren(_, _, _, _, _, _)
searchChildren(tr, node, bbox, limit, i, st) ==
    IF ~st.ok \/ i > Len(tr.nodes[node].children) THEN st
    ELSE
        LET c == tr.nodes[node].children[i] IN
        IF tr.nodes[node].leaf
        THEN IF intersects(bbox, fillBBox(c, tr.dim))
             THEN searchChildren(tr, node, bbox, limit, i + 1,
                      [calls |-> Append(st.calls, c),
                       ok |-> iterReturns(st.calls, limit)])
             ELSE searchChildren(tr, node, bbox, limit, i + 1, st)
        ELSE IF intersects(bbox, tr.nodes[c])
             THEN searchChildren(tr, node, bbox, limit, i + 1,
                                 search(tr, c, bbox, limit, st))
             ELSE searchChildren(tr, node, bbox, limit, i + 1, st)

search(tr, node, bbox, limit, st) == searchChildren(tr, node, bbox, limit, 1, st)

\* searchBBox: nothing is visited when the root's box misses the query.
searchBBox(tr, bbox, limit, st) ==
    IF ~intersects(tr.nodes[tr.data], bbox) THEN st
    ELSE search(tr, tr.data, bbox, limit, st)

\* RTree.Search of a per-dimension tree; the query box q is a full
\* (min, max) pair of 3 coordinates, of which the tree reads its own axes.
Search(tr, q, limit, st) ==
    searchBBox(tr, [min |-> [i \in 1..tr.dim |-> q.min[i]],
                    max |-> [i \in 1..tr.dim |-> q.max[i]]], limit, st)

RECURSIVE count(_, _)
count(tr, node) ==
    IF tr.nodes[node].leaf THEN Len(tr.nodes[node].children)
    ELSE SeqSum([i \in 1..Len(tr.nodes[node].children) |->
                    count(tr, tr.nodes[node].children[i])])

\* A plausible slip: the children of the root are counted, whatever they are.
CountRoot(tr) == Len(tr.nodes[tr.data].children)

Count(tr) == count(tr, tr.data)

RECURSIVE scan(_, _, _, _, _)
scan(tr, node, limit, i, st) ==
    IF ~st.ok \/ i > Len(tr.nodes[node].children) THEN st
    ELSE
        LET c == tr.nodes[node].children[i] IN
        IF tr.nodes[node].leaf
        THEN scan(tr, node, limit, i + 1,
                  [calls |-> Append(st.calls, c), ok |-> iterReturns(st.calls, limit)])
        ELSE scan(tr, node, limit, i + 1, scan(tr, c, limit, 1, st))

\* A plausible slip: the loop over a non-leaf node's children returns what the
\* scan of the first child returned.
ScanFirstChild(tr, limit, st) ==
    IF tr.nodes[tr.data].leaf THEN scan(tr, tr.data, limit, 1, st)
    ELSE scan(tr, tr.nodes[tr.data].children[1], limit, 1, st)

Scan(tr, limit, st) == scan(tr, tr.data, limit, 1, st)

\* RTree.Bounds of a per-dimension tree: zeros when the root has no children,
\* else the root's box.
Bounds(tr) ==
    IF Len(tr.nodes[tr.data].children) = 0
    THEN [min |-> [i \in 1..tr.dim |-> 0], max |-> [i \in 1..tr.dim |-> 0]]
    ELSE [min |-> tr.nodes[tr.data].min, max |-> tr.nodes[tr.data].max]

\* traverse(node, iter) with a caller's callback: iter gets the node's box
\* and height (no item), then for a leaf each item's box with level 0, for a
\* non-leaf the traversal of each child.  st is [calls, ok] as in search.
RECURSIVE traverseNode(_, _, _, _)
RECURSIVE traverseChildren(_, _, _, _, _)
traverseChildren(tr, node, limit, i, st) ==
    IF ~st.ok \/ i > Len(tr.nodes[node].children) THEN st
    ELSE
        LET c == tr.nodes[node].children[i] IN
        IF tr.nodes[node].leaf
        THEN traverseChildren(tr, node, limit, i + 1,
                 [calls |-> Append(st.calls,
                                [min |-> fillBBox(c, tr.dim).min,
                                 max |-> fillBBox(c, tr.dim).max,
                                 level |-> 0, item |-> c]),
                  ok |-> iterReturns(st.calls, limit)])
        ELSE traverseChildren(tr, node, limit, i + 1,
                              traverseNode(tr, c, limit, st))

traverseNode(tr, node, limit, st) ==
    traverseChildren(tr, node, limit, 1,
        [calls |-> Append(st.calls,
                       [min |-> tr.nodes[node].min, max |-> tr.nodes[node].max,
                        level |-> tr.nodes[node].height, item |-> nil]),
         ok |-> iterReturns(st.calls, limit)])

\* RTree.Traverse of a per-dimension tree.
\* Traverse without the call for the root node.
TraverseSkipRoot(tr, limit) ==
    traverseChildren(tr, tr.data, limit, 1, [calls |-> <<>>, ok |-> TRUE])

Traverse(tr, limit) == traverseNode(tr, tr.data, limit, [calls |-> <<>>, ok |-> TRUE])

(***************************************************************************)
(* KNN of a per-dimension tree (knn.go).  A run of tr.KNN is a frame:      *)
(* pc, the node whose children are pushed next, the priority queue (a set  *)
(* of queueItems: tinyqueue pops an entry of least dist, which one among   *)
(* equals is not specified), and cur, the item being handed to the         *)
(* callback.                                                               *)
(***************************************************************************)
\* A plausible slip: the distance to the box's min corner on each axis.
axisDistToMin(k, lo, hi) == IF k < lo THEN lo - k ELSE k - lo

axisDist(k, lo, hi) == IF k < lo THEN lo - k ELSE IF k <= hi THEN 0 ELSE k - hi

boxDist(p, box) ==
    SeqSum([i \in DOMAIN box.min |->
        axisDist(p[i], box.min[i], box.max[i]) * axisDist(p[i], box.min[i], box.max[i])])

NoEntry == [ref |-> nil, isItem |-> FALSE, dist |-> 0]
FrameOff == [pc |-> "off", by |-> "main", node |-> nil, queue |-> {}, cur |-> NoEntry]

\* A plausible slip: every run of tr.KNN is taken to be a producer's.
knnBeginProducer(tr, by) ==
    [pc |-> "push", by |-> "producer", node |-> tr.data, queue |-> {}, cur |-> NoEntry]

\* node := tr.data; queue := tinyqueue.New(nil).  by is the goroutine that
\* runs the frame: "main" (the caller's) or "producer".
knnBegin(tr, by) ==
    [pc |-> "push", by |-> by, node |-> tr.data, queue |-> {}, cur |-> NoEntry]

\* for _, child := range node.children { queue.Push(...) }
knnPush(tr, f, p) ==
    [f EXCEPT !.pc = "pop",
              !.queue = @ \cup
                  {[ref |-> tr.nodes[f.node].children[i],
                    isItem |-> tr.nodes[f.node].leaf,
                    dist |-> boxDist(p, childBox(tr, f.node,
                                                 tr.nodes[f.node].children[i]))] :
                      i \in 1..Len(tr.nodes[f.node].children)}]

\* A plausible slip: a queue that is not ordered by dist (any entry pops).
knnTopsUnordered(f) == f.queue

\* The entries queue.Peek() / queue.Pop() may return.
knnTops(f) == {e \in f.queue : \A o \in f.queue : ~(o.dist < e.dist)}

\* Entry e is popped: an item goes to the callback (pc "call"), a node
\* becomes the node to push next.
knnPop(f, e) ==
    IF e.isItem
    THEN [f EXCEPT !.pc = "call", !.queue = @ \ {e}, !.cur = e]
    ELSE [f EXCEPT !.pc = "push", !.queue = @ \ {e}, !.node = e.ref]

\* The callback returned ok: the loop goes on, or KNN returns false.
knnAfterCall(f, ok) ==
    IF ok THEN [f EXCEPT !.pc = "pop", !.cur = NoEntry]
    ELSE [f EXCEPT !.pc = "retfalse", !.cur = NoEntry]

\* queue.Pop() returned nil: node = nil, the loop ends, KNN returns true.
knnEnd(f) == [f EXCEPT !.pc = "rettrue", !.node = nil]

\* What tr.KNN does from the return of one callback invocation to the next
\* invocation (pc "call") or to its end (pc "rettrue"): the frames it may
\* stop in.  It reads the tree and its own queue only.
RECURSIVE knnAdvance(_, _, _)
knnAdvance(tr, f, p) ==
    IF f.pc = "push" THEN knnAdvance(tr, knnPush(tr, f, p), p)
    ELSE IF f.pc = "pop"
    THEN IF f.queue = {} THEN {knnEnd(f)}
         ELSE UNION {knnAdvance(tr, knnPop(f, e), p) : e \in knnTops(f)}
    ELSE {f}

\* A plausible slip: the goroutines are given the caller's callback itself.
knnCallbackIter(f) == "iter"

\* The callback a run of tr.KNN was given: the caller's iter (on the calling
\* goroutine) or fn(idx) (on a producer goroutine).
knnCallback(f) == IF f.by = "main" THEN "iter" ELSE "fn"

KnnIdle ==
    /\ kpos = <<0, 0, 0>>
    /\ klimit = NoLimit
    /\ calls = <<>>
    /\ mpc = "idle"
    /\ kret = TRUE
    /\ fr = [i \in {0, 1} |-> FrameOff]
    /\ queues = [i \in {0, 1} |-> <<>>]
    /\ dones = 0
    /\ exit = FALSE
    /\ mu = "free"
    /\ mloc = <<0, 0>>
    /\ inCb = {}

treeOf(idx) == IF idx = 0 THEN tr2 ELSE tr3

\* The coordinates of the query point that tree idx is given: (x, y) or
\* (x, y, z).
kposOf(idx) == [i \in 1..(idx + 2) |-> kpos[i]]

(***************************************************************************)
(* A standalone per-dimension tree under Insert, Remove and queries.       *)
(* sel says which package the run exercises: the 2D tree (New(), M = 9) or *)
(* the 3D tree (New(&Options{MaxEntries: OptMaxEntries})).  Items arrive   *)
(* in handle order; any handle may be removed, stored or not.                *)
(***************************************************************************)
NoRes == [op |-> "none"]

NTree(d) == IF d = 2 THEN NTree2 ELSE NTree3
ItemOf(d, k) == IF d = 2 THEN Item2(k) ELSE Item3(k)
TreeItems(d) == {ItemOf(d, k) : k \in 1..NTree(d)}

selTree == IF sel = 2 THEN tr2 ELSE tr3

QueryBoxes ==
    {[min |-> <<0, 2, -1>>, max |-> <<3, 5, 1>>],
     [min |-> <<4, 2, -1>>, max |-> <<5, 3, -1>>],
     [min |-> <<4, 0, 0>>, max |-> <<7, 3, 2>>]}

Limits == {NoLimit}

InitTree ==
    /\ seed \in 0..MaxSeed
    /\ sel \in {2, 3}
    /\ tr2 = New(2, defaultMaxEntries)
    /\ tr3 = New(3, OptMaxEntries)
    /\ present = {}
    /\ gone = {}
    /\ nIns = 0
    /\ nRem = 0
    /\ nOps = 0
    /\ res = NoRes
    /\ KnnIdle

setSelTree(t) ==
    /\ tr2' = IF sel = 2 THEN t ELSE tr2
    /\ tr3' = IF sel = 3 THEN t ELSE tr3

TreeInsert ==
    \E h \in TreeItems(sel) :
        /\ h \notin present
        /\ ItemIndex(h) = Cardinality(present \cup gone) + 1
        /\ setSelTree(Insert(selTree, h))
        /\ present' = present \cup {h}
        /\ gone' = gone \ {h}
        /\ nIns' = nIns + 1
        /\ res' = NoRes
        /\ UNCHANGED <<seed, sel, nRem, nOps>>
        /\ UNCHANGED knnVars

TreeRemove ==
    \E h \in TreeItems(sel) :
        /\ nOps < MaxRemoves
        /\ setSelTree(Remove(selTree, h))
        /\ present' = present \ {h}
        /\ gone' = IF h \in present THEN gone \cup {h} ELSE gone
        /\ nRem' = IF h \in present THEN nRem + 1 ELSE nRem
        /\ nOps' = nOps + 1
        /\ res' = NoRes
        /\ UNCHANGED <<seed, sel, nIns>>
        /\ UNCHANGED knnVars

TreeSearch ==
    \E q \in QueryBoxes, limit \in Limits :
        /\ LET r == Search(selTree, q, limit, [calls |-> <<>>, ok |-> TRUE]) IN
           res' = [op |-> "search", q |-> q, limit |-> limit,
                   calls |-> r.calls, ret |-> r.ok]
        /\ UNCHANGED <<seed, tr2, tr3, sel, present, gone, nIns, nRem, nOps>>
        /\ UNCHANGED knnVars

NextTree == TreeInsert \/ TreeRemove \/ TreeSearch

SpecTree == InitTree /\ [][NextTree]_vars

\* The same tree under Insert and Remove alone.
NextMut == TreeInsert \/ TreeRemove

SpecMut == InitTree /\ [][NextMut]_vars

(***************************************************************************)
(* KNN of a standalone per-dimension tree, step by step, on the calling    *)
(* goroutine, on a tree the caller has built first.                        *)
(***************************************************************************)
NKnn2 == 10           \* items of the 2D tree a KNN run starts from (at most)
NKnn3 == 6            \* items of the 3D tree a KNN run starts from (at most)

KnnPositions == {<<3, 3, 0>>, <<0, 6, 2>>}
KnnLimits == {NoLimit, 0, 2}

NKnn(d) == IF d = 2 THEN NKnn2 ELSE NKnn3

\* The caller builds the tree before it queries it: the next item goes in.
KnnTreeInsert ==
    /\ mpc = "idle" /\ calls = <<>>
    /\ nIns < NKnn(sel)
    /\ LET h == ItemOf(sel, nIns + 1)
       IN  /\ setSelTree(Insert(selTree, h))
           /\ present' = present \cup {h}
    /\ nIns' = nIns + 1
    /\ UNCHANGED <<seed, sel, gone, nRem, nOps, res>>
    /\ UNCHANGED knnVars

\* ... or the first item comes out again.
KnnTreeRemove ==
    /\ mpc = "idle" /\ calls = <<>>
    /\ nOps < MaxRemoves
    /\ LET h == ItemOf(sel, 1)
       IN  /\ h \in present
           /\ setSelTree(Remove(selTree, h))
           /\ present' = present \ {h}
           /\ gone' = gone \cup {h}
    /\ nRem' = nRem + 1
    /\ nOps' = nOps + 1
    /\ UNCHANGED <<seed, sel, nIns, res>>
    /\ UNCHANGED knnVars

\* tr.KNN(x, y[, z], iter) is called.
KnnCall ==
    \E p \in KnnPositions, limit \in KnnLimits :
        /\ mpc = "idle"
        /\ \A i \in {0, 1} : fr[i].pc = "off"
        /\ mpc' = "direct"
        /\ kpos' = p
        /\ klimit' = limit
        /\ calls' = <<>>
        /\ fr' = [fr EXCEPT ![sel - 2] = knnBegin(selTree, "main")]
        /\ UNCHANGED <<kret, muxVars>>
        /\ UNCHANGED treeVars

\* The children of the current node enter the queue.
KnnPush(idx) ==
    /\ fr[idx].pc = "push"
    /\ fr[idx].by = "main"
    /\ fr' = [fr EXCEPT ![idx] = knnPush(treeOf(idx), fr[idx], kposOf(idx))]
    /\ UNCHANGED <<kpos, klimit, calls, mpc, kret, muxVars>>
    /\ UNCHANGED treeVars

\* The queue's top is popped: an item for the callback, a node to expand, or
\* nothing (the loop ends).
KnnPop(idx) ==
    /\ fr[idx].pc = "pop"
    /\ fr[idx].by = "main"
    /\ IF fr[idx].queue = {}
       THEN fr' = [fr EXCEPT ![idx] = knnEnd(fr[idx])]
       ELSE \E e \in knnTops(fr[idx]) : fr' = [fr EXCEPT ![idx] = knnPop(fr[idx], e)]
    /\ UNCHANGED <<kpos, klimit, calls, mpc, kret, muxVars>>
    /\ UNCHANGED treeVars

\* iter(item, dist) of the caller, invoked by tr.KNN on the calling goroutine.
KnnIter(idx) ==
    /\ fr[idx].pc = "call"
    /\ knnCallback(fr[idx]) = "iter"
    /\ calls' = Append(calls, [item |-> fr[idx].cur.ref, dist |-> fr[idx].cur.dist,
                               by |-> fr[idx].by, during |-> inCb])
    /\ fr' = [fr EXCEPT ![idx] = knnAfterCall(fr[idx], iterReturns(calls, klimit))]
    /\ UNCHANGED <<kpos, klimit, mpc, kret, muxVars>>
    /\ UNCHANGED treeVars

\* tr.KNN returns to the caller.
KnnReturn(idx) ==
    /\ mpc = "direct"
    /\ fr[idx].by = "main"
    /\ fr[idx].pc \in {"rettrue", "retfalse"}
    /\ kret' = (fr[idx].pc = "rettrue")
    /\ res' = [op |-> "knn", mux |-> FALSE, ret |-> (fr[idx].pc = "rettrue")]
    /\ mpc' = "idle"
    /\ fr' = [fr EXCEPT ![idx] = FrameOff]
    /\ UNCHANGED <<kpos, klimit, calls, muxVars>>
    /\ UNCHANGED <<seed, tr2, tr3, sel, present, nIns, nRem, nOps, gone>>

NextKnn ==
    \/ KnnTreeInsert
    \/ KnnTreeRemove
    \/ KnnCall
    \/ \E idx \in {0, 1} : KnnPush(idx)
    \/ \E idx \in {0, 1} : KnnPop(idx)
    \/ \E idx \in {0, 1} : KnnIter(idx)
    \/ \E idx \in {0, 1} : KnnReturn(idx)

SpecKnn == InitTree /\ [][NextKnn]_vars

(***************************************************************************)
(* The hybrid tree (rtree.go): Insert, Remove, Search and Count dispatch   *)
(* to the 2D and the 3D tree, both built with the default M = 9.           *)
(***************************************************************************)
NHyb == 4             \* items the hybrid may receive: handles 1..NHyb
HMaxRemoves == 2      \* Remove calls of a hybrid run

\* A plausible slip: every item goes to the 3D tree.
HybridInsertAll3(t2, t3, item) == <<t2, Insert(t3, item)>>

\* RTree.Insert of the hybrid: the trees <<tr2, tr3>> after it.
HybridInsert(t2, t3, item) ==
    IF GeoDims(item) = 2 THEN <<Insert(t2, item), t3>> ELSE <<t2, Insert(t3, item)>>

\* RTree.Remove of the hybrid.
HybridRemove(t2, t3, item) ==
    IF GeoDims(item) = 2 THEN <<Remove(t2, item), t3>> ELSE <<t2, Remove(t3, item)>>

\* A plausible slip: the 2D box goes to the 3D tree as it is (z = 0..0).
widenNot(q) == q

\* geobin.Make3DRect(min[0], min[1], -Inf, max[0], max[1], +Inf)
widen(q) ==
    [q EXCEPT !.min = <<q.min[1], q.min[2], mathInfNeg>>,
              !.max = <<q.max[1], q.max[2], mathInfPos>>]

\* The second half of the hybrid Search: tr3.Search unless tr2.Search
\* returned false (st.ok is what the searches so far returned).
HybridSearch3(t3, q, limit, st) ==
    IF ~st.ok THEN st ELSE Search(t3, q, limit, st)

\* RTree.Search of the hybrid; q.dims is Dims() of the box.
HybridSearch(t2, t3, q, limit) ==
    IF q.dims = 2
    THEN HybridSearch3(t3, widen(q), limit,
                       Search(t2, q, limit, [calls |-> <<>>, ok |-> TRUE]))
    ELSE IF q.min[3] <= 0 /\ q.max[3] >= 0
    THEN HybridSearch3(t3, q, limit,
                       Search(t2, q, limit, [calls |-> <<>>, ok |-> TRUE]))
    ELSE Search(t3, q, limit, [calls |-> <<>>, ok |-> TRUE])

\* RTree.Count of the hybrid.
HybridCount(t2, t3) == Count(t2) + Count(t3)

\* traverse(node, iter) with the callback of isEmpty, which returns false at
\* the first item: true when the traversal ran to its end.
RECURSIVE traverse(_, _)
traverse(tr, node) ==
    IF tr.nodes[node].leaf THEN Len(tr.nodes[node].children) = 0
    ELSE \A i \in 1..Len(tr.nodes[node].children) :
            traverse(tr, tr.nodes[node].children[i])

\* A plausible slip: the test for an empty tree never says yes.
isEmptyNever(tr) == FALSE

isEmpty(tr) == traverse(tr, tr.data)

\* A plausible slip: the 3D tree is scanned whatever the 2D scan returned.
HybridScan3Always(t3, limit, st) == Scan(t3, limit, [st EXCEPT !.ok = TRUE])

\* The second half of the hybrid Scan: tr3.Scan unless tr2.Scan returned false.
HybridScan3(t3, limit, st) == IF ~st.ok THEN st ELSE Scan(t3, limit, st)

\* RTree.Scan of the hybrid.
HybridScan(t2, t3, limit) ==
    HybridScan3(t3, limit, Scan(t2, limit, [calls |-> <<>>, ok |-> TRUE]))

\* A plausible slip: z is widened too, a 2D tree counting as z = 0.
widenXYZ(b3, b2) ==
    [min |-> <<mathMin(b2.min[1], b3.min[1]), mathMin(b2.min[2], b3.min[2]),
               mathMin(0, b3.min[3])>>,
     max |-> <<mathMax(b2.max[1], b3.max[1]), mathMax(b2.max[2], b3.max[2]),
               mathMax(0, b3.max[3])>>]

\* The last branch of the hybrid Bounds: the 3D tree's bounds b3, widened in
\* x and y by the 2D tree's bounds b2.
widenXY(b3, b2) ==
    [min |-> <<mathMin(b2.min[1], b3.min[1]), mathMin(b2.min[2], b3.min[2]), b3.min[3]>>,
     max |-> <<mathMax(b2.max[1], b3.max[1]), mathMax(b2.max[2], b3.max[2]), b3.max[3]>>]

\* RTree.Bounds of the hybrid.
HybridBounds(t2, t3) ==
    IF isEmpty(t2) /\ isEmpty(t3)
    THEN [min |-> <<0, 0, 0>>, max |-> <<0, 0, 0>>]
    ELSE IF isEmpty(t3)
    THEN [min |-> <<Bounds(t2).min[1], Bounds(t2).min[2], 0>>,
          max |-> <<Bounds(t2).max[1], Bounds(t2).max[2], 0>>]
    ELSE IF isEmpty(t2) THEN Bounds(t3)
    ELSE widenXY(Bounds(t3), Bounds(t2))

(***************************************************************************)
(* The merge of the hybrid KNN: the operators of its goroutines.           *)
(***************************************************************************)
\* A plausible slip: fn does not look at the exit flag.
fnIgnoresExit(qs, ex, idx, e) ==
    [queues |-> [qs EXCEPT ![idx] = Append(@, e)], ok |-> TRUE]

\* fn(idx)(item, dist) between mu.Lock() and mu.Unlock(): the queues after
\* it and the value it returns.
fn(qs, ex, idx, e) ==
    IF ex THEN [queues |-> qs, ok |-> FALSE]
    ELSE [queues |-> [qs EXCEPT ![idx] = Append(@, e)], ok |-> TRUE]

\* cond.Broadcast(): a consumer asleep in cond.Wait() goes for the mutex.
\* A plausible slip: the signal is not sent.
BroadcastNot(pc) == pc

Broadcast(pc) == IF pc = "wait" THEN "lock" ELSE pc

\* A plausible slip: the merge always takes from queues[0].
mergePickFirst(qs) == 0

\* if queues[0][0].dist < queues[1][0].dist { from 0 } else { from 1 }
mergePick(qs) == IF qs[0][1].dist < qs[1][1].dist THEN 0 ELSE 1

\* A plausible slip: nothing is drained once both producers are done.
drainNextNothing(qs, i, j) == <<2, 0>>

\* for i := 0; i < 2; i++ { for _, qi := range queues[i] {...} }: the
\* position of the next element at or after <<i, j>>, <<2, 0>> for none.
RECURSIVE drainNext(_, _, _)
drainNext(qs, i, j) ==
    IF i >= 2 THEN <<2, 0>>
    ELSE IF j < Len(qs[i]) THEN <<i, j>>
    ELSE drainNext(qs, i + 1, 0)

\* The record of an invocation of the caller callback by the consumer.
mainCall(e) == [item |-> e.item, dist |-> e.dist, by |-> "main", during |-> inCb]

(***************************************************************************)
(* The hybrid tree as its caller sees it.  The caller is sequential: it    *)
(* makes its next call once the last one returned; the model follows it    *)
(* from there only when no goroutine of the last KNN is left (Quiet).      *)
(***************************************************************************)
HQueryBoxes ==
    {[dims |-> 2, min |-> <<0, 0, 0>>, max |-> <<8, 8, 0>>],
     [dims |-> 3, min |-> <<0, 0, 1>>, max |-> <<8, 8, 2>>],
     [dims |-> 3, min |-> <<2, 1, -2>>, max |-> <<5, 4, 0>>]}

InitHybrid ==
    /\ seed \in 0..MaxSeed
    /\ sel = 0
    /\ tr2 = New(2, defaultMaxEntries)
    /\ tr3 = New(3, defaultMaxEntries)
    /\ present = {}
    /\ gone = {}
    /\ nIns = 0
    /\ nRem = 0
    /\ nOps = 0
    /\ res = NoRes
    /\ KnnIdle

Quiet == mpc = "idle" /\ \A i \in {0, 1} : fr[i].pc \in {"off", "done"}

\* The locals of a finished KNN call are gone.
KnnForget ==
    /\ kpos' = <<0, 0, 0>>
    /\ klimit' = NoLimit
    /\ calls' = <<>>
    /\ mpc' = "idle"
    /\ kret' = TRUE
    /\ fr' = [i \in {0, 1} |-> FrameOff]
    /\ queues' = [i \in {0, 1} |-> <<>>]
    /\ dones' = 0
    /\ exit' = FALSE
    /\ mu' = "free"
    /\ mloc' = <<0, 0>>
    /\ inCb' = {}

setTrees(t) ==
    /\ tr2' = t[1]
    /\ tr3' = t[2]

\* tr.Insert(item): items arrive in handle order.
HInsert ==
    /\ Quiet
    /\ nIns < NHyb
    /\ setTrees(HybridInsert(tr2, tr3, nIns + 1))
    /\ present' = present \cup {nIns + 1}
    /\ nIns' = nIns + 1
    /\ res' = NoRes
    /\ KnnForget
    /\ UNCHANGED <<seed, sel, gone, nRem, nOps>>

\* tr.Remove(item) of any item, stored or never stored or already removed.
HRemove ==
    \E h \in 1..NHyb :
        /\ Quiet
        /\ nOps < HMaxRemoves
        /\ setTrees(HybridRemove(tr2, tr3, h))
        /\ present' = present \ {h}
        /\ gone' = IF h \in present THEN gone \cup {h} ELSE gone
        /\ nRem' = IF h \in present THEN nRem + 1 ELSE nRem
        /\ nOps' = nOps + 1
        /\ res' = NoRes
        /\ KnnForget
        /\ UNCHANGED <<seed, sel, nIns>>

\* tr.Search(box, iter)
HSearch ==
    \E q \in HQueryBoxes, limit \in {NoLimit, 1} :
        /\ Quiet
        /\ res' = [op |-> "hsearch", q |-> q, limit |-> limit,
                   calls |-> HybridSearch(tr2, tr3, q, limit).calls,
                   ret |-> HybridSearch(tr2, tr3, q, limit).ok]
        /\ KnnForget
        /\ UNCHANGED <<seed, tr2, tr3, sel, present, nIns, nRem, nOps, gone>>

\* tr.Count()
HCount ==
    /\ Quiet
    /\ res' = [op |-> "count", ret |-> HybridCount(tr2, tr3),
               c2 |-> Count(tr2), c3 |-> Count(tr3)]
    /\ KnnForget
    /\ UNCHANGED <<seed, tr2, tr3, sel, present, nIns, nRem, nOps, gone>>

\* tr.Scan(iter)
HScan ==
    \E limit \in {NoLimit, 0, 1} :
        /\ Quiet
        /\ res' = [op |-> "hscan", limit |-> limit,
                   calls |-> HybridScan(tr2, tr3, limit).calls,
                   ret |-> HybridScan(tr2, tr3, limit).ok]
        /\ KnnForget
        /\ UNCHANGED <<seed, tr2, tr3, sel, present, nIns, nRem, nOps, gone>>

\* tr.Bounds()
HBounds ==
    /\ Quiet
    /\ res' = [op |-> "bounds", min |-> HybridBounds(tr2, tr3).min,
               max |-> HybridBounds(tr2, tr3).max]
    /\ KnnForget
    /\ UNCHANGED <<seed, tr2, tr3, sel, present, nIns, nRem, nOps, gone>>

\* tr.KNN(pos, iter) up to the start of the per-dimension KNN or of the two
\* goroutines (lines 63 to 114).
HKnnCall ==
    \E p \in KnnPositions, limit \in KnnLimits :
        /\ Quiet
        /\ kpos' = p
        /\ klimit' = limit
        /\ calls' = <<>>
        /\ queues' = [i \in {0, 1} |-> <<>>]
        /\ dones' = 0
        /\ exit' = FALSE
        /\ mu' = "free"
        /\ mloc' = <<0, 0>>
        /\ inCb' = {}
        /\ kret' = TRUE
        /\ IF isEmpty(tr2) /\ isEmpty(tr3)
           THEN /\ mpc' = "idle"
                /\ fr' = [i \in {0, 1} |-> FrameOff]
                /\ res' = [op |-> "knn", mux |-> FALSE, ret |-> TRUE]
           ELSE IF isEmpty(tr3)
           THEN /\ mpc' = "direct"
                /\ fr' = (0 :> knnBegin(tr2, "main") @@ 1 :> FrameOff)
                /\ res' = NoRes
           ELSE IF isEmpty(tr2)
           THEN /\ mpc' = "direct"
                /\ fr' = (0 :> FrameOff @@ 1 :> knnBegin(tr3, "main"))
                /\ res' = NoRes
           ELSE /\ mpc' = "lock"
                /\ fr' = (0 :> knnBegin(tr2, "producer") @@ 1 :> knnBegin(tr3, "producer"))
                /\ res' = NoRes
        /\ UNCHANGED <<seed, tr2, tr3, sel, present, nIns, nRem, nOps, gone>>

(***************************************************************************)
(* The producer goroutines: go func() { qdone(tr.trN.KNN(..., fn(idx))) }  *)
(***************************************************************************)
\* The goroutine starts tr.KNN and runs it up to the first invocation of its
\* callback (or to its end).
ProducerRun(idx) ==
    /\ fr[idx].by = "producer"
    /\ fr[idx].pc \in {"push", "pop"}
    /\ \E f \in knnAdvance(treeOf(idx), fr[idx], kposOf(idx)) :
           fr' = [fr EXCEPT ![idx] = f]
    /\ UNCHANGED <<kpos, klimit, calls, mpc, kret, muxVars>>
    /\ UNCHANGED treeVars

\* fn(idx)(item, dist), the whole critical section, and then tr.KNN up to
\* the next invocation of its callback.
ProducerFn(idx) ==
    /\ fr[idx].by = "producer"
    /\ fr[idx].pc = "call"
    /\ knnCallback(fr[idx]) = "fn"
    /\ mu = "free"
    /\ LET r == fn(queues, exit, idx,
                   [item |-> fr[idx].cur.ref, dist |-> fr[idx].cur.dist])
       IN  /\ queues' = r.queues
           /\ mpc' = IF r.ok THEN Broadcast(mpc) ELSE mpc
           /\ \E f \in knnAdvance(treeOf(idx), knnAfterCall(fr[idx], r.ok),
                                  kposOf(idx)) :
                  fr' = [fr EXCEPT ![idx] = f]
    /\ UNCHANGED <<kpos, klimit, calls, kret, dones, exit, mu, mloc, inCb>>
    /\ UNCHANGED treeVars

\* qdone: tr.KNN returned; dones++ and Broadcast under the mutex, and the
\* goroutine ends.
ProducerDone(idx) ==
    /\ fr[idx].by = "producer"
    /\ fr[idx].pc \in {"rettrue", "retfalse"}
    /\ mu = "free"
    /\ dones' = dones + 1
    /\ mpc' = Broadcast(mpc)
    /\ fr' = [fr EXCEPT ![idx].pc = "done"]
    /\ UNCHANGED <<kpos, klimit, calls, kret, queues, exit, mu, mloc, inCb>>
    /\ UNCHANGED treeVars

(***************************************************************************)
(* The consumer: the loop of lines 115 to 149 on the calling goroutine.    *)
(***************************************************************************)
\* mu.Lock() at the top of the loop, also on the way out of cond.Wait().
MainLock ==
    /\ mpc = "lock"
    /\ mu = "free"
    /\ mu' = "main"
    /\ mpc' = "merge"
    /\ UNCHANGED <<kpos, klimit, calls, kret, fr, queues, dones, exit, mloc, inCb>>
    /\ UNCHANGED treeVars

\* A plausible slip: the merge loop runs while either queue holds an element
\* (|| for &&) and hands over the head of a queue that is not empty.
MainMergeEither ==
    /\ mpc = "merge"
    /\ IF Len(queues[0]) > 0 \/ Len(queues[1]) > 0
       THEN /\ calls' = Append(calls,
                   mainCall(queues[IF Len(queues[0]) > 0 THEN 0 ELSE 1][1]))
            /\ queues' = [queues EXCEPT ![IF Len(queues[0]) > 0 THEN 0 ELSE 1] = Tail(@)]
            /\ inCb' = inCb \cup {"main"}
            /\ mpc' = "cb"
            /\ UNCHANGED <<mu, mloc>>
       ELSE IF dones = 2
       THEN /\ mpc' = IF ~exit THEN "drain" ELSE "unlock"
            /\ mloc' = <<0, 0>>
            /\ UNCHANGED <<calls, queues, inCb, mu>>
       ELSE /\ mpc' = "wait"
            /\ mu' = "free"
            /\ UNCHANGED <<calls, queues, inCb, mloc>>
    /\ UNCHANGED <<kpos, klimit, kret, fr, dones, exit>>
    /\ UNCHANGED treeVars

\* The test of the merge loop: an element goes to the callback, or the
\* drain loops start, or the consumer sleeps in cond.Wait().
MainMerge ==
    /\ mpc = "merge"
    /\ IF Len(queues[0]) > 0 /\ Len(queues[1]) > 0
       THEN /\ calls' = Append(calls, mainCall(queues[mergePick(queues)][1]))
            /\ queues' = [queues EXCEPT ![mergePick(queues)] = Tail(@)]
            /\ inCb' = inCb \cup {"main"}
            /\ mpc' = "cb"
            /\ UNCHANGED <<mu, mloc>>
       ELSE IF dones = 2
       THEN /\ mpc' = IF ~exit THEN "drain" ELSE "unlock"
            /\ mloc' = <<0, 0>>
            /\ UNCHANGED <<calls, queues, inCb, mu>>
       ELSE /\ mpc' = "wait"
            /\ mu' = "free"
            /\ UNCHANGED <<calls, queues, inCb, mloc>>
    /\ UNCHANGED <<kpos, klimit, kret, fr, dones, exit>>
    /\ UNCHANGED treeVars

\* iter returns in the merge loop: on false, exit = true and KNN returns
\* false.
MainIterReturn ==
    /\ mpc = "cb"
    /\ inCb' = inCb \ {"main"}
    /\ IF iterReturns(SubSeq(calls, 1, Len(calls) - 1), klimit)
       THEN /\ mpc' = "merge"
            /\ UNCHANGED <<exit, mu, kret, res>>
       ELSE /\ exit' = TRUE
            /\ mu' = "free"
            /\ mpc' = "idle"
            /\ kret' = FALSE
            /\ res' = [op |-> "knn", mux |-> TRUE, ret |-> FALSE]
    /\ UNCHANGED <<kpos, klimit, calls, fr, queues, dones, mloc>>
    /\ UNCHANGED <<seed, tr2, tr3, sel, present, nIns, nRem, nOps, gone>>

\* The drain loops: the next queued element goes to the callback; after the
\* last one exit = true, and KNN returns true.
MainDrain ==
    /\ mpc \in {"drain", "unlock"}
    /\ IF mpc = "drain" /\ drainNext(queues, mloc[1], mloc[2])[1] < 2
       THEN /\ mloc' = drainNext(queues, mloc[1], mloc[2])
            /\ calls' = Append(calls,
                   mainCall(queues[drainNext(queues, mloc[1], mloc[2])[1]]
                                  [drainNext(queues, mloc[1], mloc[2])[2] + 1]))
            /\ inCb' = inCb \cup {"main"}
            /\ mpc' = "cbd"
            /\ UNCHANGED <<exit, mu, kret, res>>
       ELSE /\ exit' = TRUE
            /\ mu' = "free"
            /\ mpc' = "idle"
            /\ kret' = TRUE
            /\ res' = [op |-> "knn", mux |-> TRUE, ret |-> TRUE]
            /\ UNCHANGED <<mloc, calls, inCb>>
    /\ UNCHANGED <<kpos, klimit, fr, queues, dones>>
    /\ UNCHANGED <<seed, tr2, tr3, sel, present, nIns, nRem, nOps, gone>>

\* iter returns in a drain loop: on false KNN returns false.
MainDrainReturn ==
    /\ mpc = "cbd"
    /\ inCb' = inCb \ {"main"}
    /\ IF iterReturns(SubSeq(calls, 1, Len(calls) - 1), klimit)
       THEN /\ mpc' = "drain"
            /\ mloc' = <<mloc[1], mloc[2] + 1>>
            /\ UNCHANGED <<mu, kret, res>>
       ELSE /\ mu' = "free"
            /\ mpc' = "idle"
            /\ kret' = FALSE
            /\ res' = [op |-> "knn", mux |-> TRUE, ret |-> FALSE]
            /\ UNCHANGED mloc
    /\ UNCHANGED <<kpos, klimit, calls, fr, queues, dones, exit>>
    /\ UNCHANGED <<seed, tr2, tr3, sel, present, nIns, nRem, nOps, gone>>

Next ==
    \/ HInsert
    \/ HRemove
    \/ HSearch
    \/ HCount
    \/ HScan
    \/ HBounds
    \/ HKnnCall
    \/ \E idx \in {0, 1} : KnnPush(idx)
    \/ \E idx \in {0, 1} : KnnPop(idx)
    \/ \E idx \in {0, 1} : KnnIter(idx)
    \/ \E idx \in {0, 1} : KnnReturn(idx)
    \/ \E idx \in {0, 1} : ProducerRun(idx)
    \/ \E idx \in {0, 1} : ProducerFn(idx)
    \/ \E idx \in {0, 1} : ProducerDone(idx)
    \/ MainLock
    \/ MainMerge
    \/ MainIterReturn
    \/ MainDrain
    \/ MainDrainReturn

Spec == InitHybrid /\ [][Next]_vars

\* A step of the calling goroutine inside the merge, or of a producer.
MuxStep ==
    \/ MainLock
    \/ MainMerge
    \/ MainIterReturn
    \/ MainDrain
    \/ MainDrainReturn
    \/ \E idx \in {0, 1} : ProducerRun(idx)
    \/ \E idx \in {0, 1} : ProducerFn(idx)
    \/ \E idx \in {0, 1} : ProducerDone(idx)

\* The Go scheduler does not stop all goroutines of the merge for ever while
\* one of them can run, and a caller callback returns.
Fairness == WF_vars(MuxStep)

\* A caller that inserts and asks for neighbours, under that fairness.
NextLive ==
    \/ HInsert
    \/ HKnnCall
    \/ \E idx \in {0, 1} : KnnPush(idx)
    \/ \E idx \in {0, 1} : KnnPop(idx)
    \/ \E idx \in {0, 1} : KnnIter(idx)
    \/ \E idx \in {0, 1} : KnnReturn(idx)
    \/ MuxStep

SpecLive == InitHybrid /\ [][NextLive]_vars /\ Fairness

(***************************************************************************)
(* The hybrid tree through a round: the caller inserts a set of distinct   *)
(* items, ten of them 2D so that the 2D tree (M = 9) splits, then removes  *)
(* items in any order (now and then one that is not stored), and once the  *)
(* hybrid is empty inserts the same items again.                           *)
(***************************************************************************)
NRound == 11          \* items of a round
RMaxMisses == 1       \* Remove calls of a round that target an absent item

\* The n-th item of a round: handles 1 (2D), 2 (3D), 3, 5, 7, ... (2D).
RoundItem(n) == IF n <= 2 THEN n ELSE Item2(n - 1)

RoundItems == {RoundItem(n) : n \in 1..NRound}

\* The first Insert calls of a round: the next item, while nothing was removed.
RInsert ==
    /\ nOps = 0
    /\ nIns < NRound
    /\ setTrees(HybridInsert(tr2, tr3, RoundItem(nIns + 1)))
    /\ present' = present \cup {RoundItem(nIns + 1)}
    /\ nIns' = nIns + 1
    /\ res' = NoRes
    /\ UNCHANGED <<seed, sel, gone, nRem, nOps>>
    /\ UNCHANGED knnVars

\* tr.Remove(item) of an item of the round, stored or not, before any item
\* is inserted again.
RRemove ==
    \E h \in RoundItems :
        /\ nIns >= 1
        /\ nIns = Cardinality(present \cup gone)
        /\ h \notin present => nOps - nRem < RMaxMisses
        /\ setTrees(HybridRemove(tr2, tr3, h))
        /\ present' = present \ {h}
        /\ gone' = IF h \in present THEN gone \cup {h} ELSE gone
        /\ nRem' = IF h \in present THEN nRem + 1 ELSE nRem
        /\ nOps' = nOps + 1
        /\ res' = NoRes
        /\ UNCHANGED <<seed, sel, nIns>>
        /\ UNCHANGED knnVars

\* Every item was removed: the caller inserts them again, in the first order.
RInsertAgain ==
    \E n \in 1..NRound :
        /\ nRem = Cardinality(present \cup gone)
        /\ RoundItem(n) \in gone
        /\ \A k \in 1..(n - 1) : RoundItem(k) \notin gone
        /\ setTrees(HybridInsert(tr2, tr3, RoundItem(n)))
        /\ present' = present \cup {RoundItem(n)}
        /\ gone' = gone \ {RoundItem(n)}
        /\ nIns' = nIns + 1
        /\ res' = NoRes
        /\ UNCHANGED <<seed, sel, nRem, nOps>>
        /\ UNCHANGED knnVars

NextRound ==
    \/ RInsert
    \/ RRemove
    \/ RInsertAgain

SpecRound == InitHybrid /\ [][NextRound]_vars

(***************************************************************************)
(* The hybrid tree under a caller that may insert an item it has already   *)
(* stored: Insert does not look for the item, so the item is stored once   *)
(* more; Remove takes out the first copy it finds.                         *)
(***************************************************************************)
NDup == 12            \* Insert calls of such a run
DMaxDups == 1         \* of them, calls that insert a stored item again
DMaxRemoves == 1      \* Remove calls of such a run

\* The leaf slots <<node, index>> of tree tr that hold item h.
Slots(tr, h) ==
    UNION {{<<n, i>> : i \in {j \in 1..Len(tr.nodes[n].children) :
                                 tr.nodes[n].children[j] = h}} :
              n \in {k \in DOMAIN tr.nodes : tr.nodes[k].leaf}}

\* The number of copies of item h the hybrid holds.
Copies(h) == Cardinality(Slots(tr2, h)) + Cardinality(Slots(tr3, h))

\* The copies stored beyond the first of each item (ghost arithmetic).
ExtraCopies == (nIns - nRem) - Cardinality(present)

\* tr.Insert(item) of the next new item of the round, or once more of the
\* item inserted last.
DInsert ==
    \E h \in {RoundItem(Cardinality(present \cup gone)),
              RoundItem(Cardinality(present \cup gone) + 1)} :
        /\ nIns < NDup
        /\ h = RoundItem(Cardinality(present \cup gone)) =>
               (h \in present /\ ExtraCopies < DMaxDups)
        /\ setTrees(HybridInsert(tr2, tr3, h))
        /\ present' = present \cup {h}
        /\ nIns' = nIns + 1
        /\ res' = NoRes
        /\ UNCHANGED <<seed, sel, gone, nRem, nOps>>
        /\ UNCHANGED knnVars

\* tr.Remove(item) of the item inserted last, while stored: one copy goes.
DRemove ==
    \E h \in present \cap {RoundItem(Cardinality(present \cup gone))} :
        /\ nOps < DMaxRemoves
        /\ setTrees(HybridRemove(tr2, tr3, h))
        /\ present' = IF Copies(h) = 1 THEN present \ {h} ELSE present
        /\ gone' = IF Copies(h) = 1 THEN gone \cup {h} ELSE gone
        /\ nRem' = nRem + 1
        /\ nOps' = nOps + 1
        /\ res' = NoRes
        /\ UNCHANGED <<seed, sel, nIns>>
        /\ UNCHANGED knnVars

NextDup == DInsert \/ DRemove

SpecDup == InitHybrid /\ [][NextDup]_vars

(***************************************************************************)
(* A 3D tree made with New(&Options{MaxEntries: SMaxEntries}) that is      *)
(* given a selection of the 3D items, in handle order: the caller may pass *)
(* over any item.  The nodes that split hold many different sets of boxes. *)
(***************************************************************************)
SMaxSeed == 5         \* layouts 0..SMaxSeed
SMaxEntries == 5      \* Options.MaxEntries of the tree
NSplitPool == 8       \* the items offered: the first NSplitPool 3D items
NSplit == 6           \* Insert calls of a run

InitSplit ==
    /\ seed \in 0..SMaxSeed
    /\ sel = 3
    /\ tr2 = New(2, defaultMaxEntries)
    /\ tr3 = New(3, SMaxEntries)
    /\ present = {}
    /\ gone = {}
    /\ nIns = 0
    /\ nRem = 0
    /\ nOps = 0
    /\ res = NoRes
    /\ KnnIdle

\* The items the caller may insert next: those after every item stored.
SNextItems ==
    {Item3(k) : k \in {j \in 1..NSplitPool : \A h \in present : ItemIndex(h) < j}}

\* tr.Insert(item).
SInsert ==
    \E h \in SNextItems :
        /\ nIns < NSplit
        /\ setSelTree(Insert(selTree, h))
        /\ present' = present \cup {h}
        /\ nIns' = nIns + 1
        /\ res' = NoRes
        /\ UNCHANGED <<seed, sel, gone, nRem, nOps>>
        /\ UNCHANGED knnVars

NextSplit == SInsert

SpecSplit == InitSplit /\ [][NextSplit]_vars

(***************************************************************************)
(* A 3D tree made with any Options.MaxEntries (also zero and values under  *)
(* 4, which New raises to 4), filled item by item until its root has split.*)
(* res keeps the Options the tree was made with.                           *)
(***************************************************************************)
OMaxEntries == 10     \* Options.MaxEntries is one of 0..OMaxEntries
NOpts == 12           \* Insert calls of a run

InitOpts ==
    /\ seed \in 0..MaxSeed
    /\ sel = 3
    /\ tr2 = New(2, defaultMaxEntries)
    /\ \E e \in 0..OMaxEntries :
          /\ tr3 = New(3, e)
          /\ res = [op |-> "new", MaxEntries |-> e]
    /\ present = {}
    /\ gone = {}
    /\ nIns = 0
    /\ nRem = 0
    /\ nOps = 0
    /\ KnnIdle

\* The item the caller inserts next.
ONextItems == {Item3(nIns + 1)}

\* tr.Insert(item).
OInsert ==
    \E h \in ONextItems :
        /\ nIns < NOpts
        /\ setSelTree(Insert(selTree, h))
        /\ present' = present \cup {h}
        /\ nIns' = nIns + 1
        /\ UNCHANGED <<seed, sel, gone, nRem, nOps, res>>
        /\ UNCHANGED knnVars

NextOpts == OInsert

SpecOpts == InitOpts /\ [][NextOpts]_vars

(***************************************************************************)
(* A 3D tree (MaxEntries 4) filled with the first NShrink items and then   *)
(* emptied again: the caller removes the lowest or the highest item stored,*)
(* so that whole leaves, then whole subtrees, run empty.                   *)
(***************************************************************************)
NShrink == 12         \* items the tree is filled with

InitShrink ==
    /\ seed \in 0..MaxSeed
    /\ sel = 3
    /\ tr2 = New(2, defaultMaxEntries)
    /\ tr3 = New(3, OptMaxEntries)
    /\ present = {}
    /\ gone = {}
    /\ nIns = 0
    /\ nRem = 0
    /\ nOps = 0
    /\ res = NoRes
    /\ KnnIdle

\* tr.Insert(item), while nothing has been removed.
ShrinkInsert ==
    /\ nRem = 0
    /\ nIns < NShrink
    /\ setSelTree(Insert(selTree, Item3(nIns + 1)))
    /\ present' = present \cup {Item3(nIns + 1)}
    /\ nIns' = nIns + 1
    /\ res' = NoRes
    /\ UNCHANGED <<seed, sel, gone, nRem, nOps>>
    /\ UNCHANGED knnVars

\* The items the caller may remove next.
ShrinkItems ==
    {h \in present : (\A o \in present : o >= h) \/ (\A o \in present : o <= h)}

\* tr.Remove(item), once the tree is full.
ShrinkRemove ==
    \E h \in ShrinkItems :
        /\ nIns = NShrink
        /\ setSelTree(Remove(selTree, h))
        /\ present' = present \ {h}
        /\ gone' = gone \cup {h}
        /\ nRem' = nRem + 1
        /\ nOps' = nOps + 1
        /\ res' = NoRes
        /\ UNCHANGED <<seed, sel, nIns>>
        /\ UNCHANGED knnVars

NextShrink == ShrinkInsert \/ ShrinkRemove

SpecShrink == InitShrink /\ [][NextShrink]_vars

(***************************************************************************)
(* What the claims compare the trees with: the items' rectangles as        *)
(* geobin gives them, read without any tree.                               *)
(***************************************************************************)
\* Closed-interval overlap of item h's rectangle and box q on axes 1..dim.
Overlaps(h, q, dim) ==
    \A i \in 1..dim : GeoRectMin(h)[i] <= q.max[i] /\ q.min[i] <= GeoRectMax(h)[i]

NoDuplicates(s) == \A i, j \in 1..Len(s) : i # j => s[i] # s[j]

SeqRange(s) == {s[i] : i \in 1..Len(s)}

rootHeight(tr) == tr.nodes[tr.data].height

(***************************************************************************)
(* C1.  In every state a per-dimension tree reaches by Insert and Remove,  *)
(* a Search whose callback always returns true invokes it exactly once for *)
(* every stored item whose rectangle overlaps the query box (closed        *)
(* intervals, on each axis of the tree) and for no other item.             *)
(***************************************************************************)
C1_SearchExact ==
    (res.op = "search" /\ res.limit = NoLimit) =>
        /\ NoDuplicates(res.calls)
        /\ SeqRange(res.calls) = {h \in present : Overlaps(h, res.q, sel)}
        /\ res.ret = TRUE

\* A search of a tree of height 2 or more, after a Remove that hit, which
\* reports some stored items and leaves others out.
C1_Witness ==
    /\ res.op = "search" /\ res.limit = NoLimit
    /\ rootHeight(selTree) >= 2
    /\ nRem >= 1
    /\ res.calls # <<>>
    /\ \E h \in present : h \notin SeqRange(res.calls)

(***************************************************************************)
(* C4.  Per-dimension KNN hands the callback squared box distances in      *)
(* nondecreasing order, each the distance of the item it comes with, and   *)
(* the j-th distance handed over is the j-th smallest box distance over    *)
(* the items stored in the tree, wherever the callback stops.              *)
(***************************************************************************)
\* The squared distance from point p to item h's rectangle on axes 1..dim.
ExpDist(h, p, dim) ==
    SeqSum([i \in 1..dim |->
        LET lo == GeoRectMin(h)[i]
            hi == GeoRectMax(h)[i]
            gap == IF p[i] < lo THEN lo - p[i] ELSE IF p[i] > hi THEN p[i] - hi ELSE 0
        IN  gap * gap])

\* v is the j-th smallest of the distances of the items in S (with repeats).
IsNthSmallest(v, j, S, p, dim) ==
    /\ Cardinality({h \in S : ExpDist(h, p, dim) < v}) < j
    /\ j <= Cardinality({h \in S : ExpDist(h, p, dim) <= v})

C4_KnnOrder ==
    /\ \A j \in 1..Len(calls) :
        /\ calls[j].item \in present
        /\ calls[j].dist = ExpDist(calls[j].item, kpos, sel)
        /\ IsNthSmallest(calls[j].dist, j, present, kpos, sel)
        /\ j > 1 => calls[j - 1].dist <= calls[j].dist
    /\ NoDuplicates(calls)

\* A run on a tree of height 2 or more whose callback took two items, at
\* different distances, and stopped the run at the third, with more stored.
C4_Witness ==
    /\ mpc = "idle" /\ kret = FALSE /\ klimit = 2
    /\ Len(calls) = 3
    /\ calls[1].dist < calls[2].dist
    /\ rootHeight(selTree) >= 2
    /\ Cardinality(present) > 3

(***************************************************************************)
(* What the claims compare the hybrid with.                                *)
(***************************************************************************)
\* The KNN call in progress, or the last one, went the way of the merge.
MuxRun == fr[0].by = "producer" /\ fr[1].by = "producer"

ProducersGone == \A i \in {0, 1} : fr[i].pc \in {"off", "done"}

\* The box distance of item h from the query point, on the axes of its tree.
HDist(h) == ExpDist(h, kpos, GeoDims(h))

CallItems == [j \in 1..Len(calls) |-> calls[j].item]

OverlapsXY(h, q) ==
    \A i \in 1..2 : GeoRectMin(h)[i] <= q.max[i] /\ GeoRectMax(h)[i] >= q.min[i]

\* The 2D/3D mixing rule: whether a search with box q is to report item h.
MixingRule(h, q) ==
    /\ OverlapsXY(h, q)
    /\ q.dims = 3 =>
        IF GeoDims(h) = 2 THEN q.min[3] <= 0 /\ 0 <= q.max[3]
        ELSE GeoRectMin(h)[3] <= q.max[3] /\ GeoRectMax(h)[3] >= q.min[3]

(***************************************************************************)
(* C2.  A hybrid Search whose callback always returns true reports exactly *)
(* the stored items the mixing rule selects, none twice: with a 2D box,    *)
(* the 2D and the 3D items overlapping it in x/y whatever their z; with a  *)
(* 3D box, the 3D items overlapping it in x/y/z, and the 2D items          *)
(* overlapping it in x/y if and only if min.z <= 0 <= max.z.               *)
(***************************************************************************)
C2_HybridSearchMixing ==
    (res.op = "hsearch" /\ res.limit = NoLimit) =>
        /\ NoDuplicates(res.calls)
        /\ SeqRange(res.calls) = {h \in present : MixingRule(h, res.q)}
        /\ res.ret = TRUE

\* A 3D box above z = 0 found a 3D item and left out a stored 2D item that
\* overlaps it in x/y.
C2_Witness ==
    /\ res.op = "hsearch" /\ res.limit = NoLimit
    /\ res.q.dims = 3 /\ res.q.min[3] > 0
    /\ \E h \in present : GeoDims(h) = 2 /\ OverlapsXY(h, res.q)
    /\ \E j \in 1..Len(res.calls) : GeoDims(res.calls[j]) = 3

(***************************************************************************)
(* C3.  Count() of the hybrid is the number of Insert calls minus the      *)
(* number of Remove calls that targeted a stored item (a Remove of an      *)
(* absent item changes nothing), and it is the sum of the counts of the    *)
(* 2D and of the 3D tree, each the number of its stored items.             *)
(***************************************************************************)
C3_CountInsertsMinusRemoves ==
    res.op = "count" =>
        /\ res.ret = nIns - nRem
        /\ res.ret = res.c2 + res.c3
        /\ res.c2 = Cardinality({h \in present : GeoDims(h) = 2})
        /\ res.c3 = Cardinality({h \in present : GeoDims(h) = 3})

\* Count after a Remove that hit and a Remove that missed, both trees in use.
C3_Witness ==
    /\ res.op = "count"
    /\ nOps = 2 /\ nRem = 1
    /\ res.c2 >= 1 /\ res.c3 >= 1

(***************************************************************************)
(* C5.  In a hybrid KNN over two non-empty trees, in every interleaving,   *)
(* the distances handed to the caller callback are nondecreasing, each is  *)
(* the box distance of the item it comes with, and the j-th is the j-th    *)
(* smallest box distance over the items of both trees.                     *)
(***************************************************************************)
C5_MergedOrder ==
    MuxRun =>
        \A j \in 1..Len(calls) :
            /\ calls[j].item \in present
            /\ calls[j].dist = HDist(calls[j].item)
            /\ Cardinality({h \in present : HDist(h) < calls[j].dist}) < j
            /\ j <= Cardinality({h \in present : HDist(h) <= calls[j].dist})
            /\ j > 1 => calls[j - 1].dist <= calls[j].dist

\* A finished merge that handed over a 3D item, then a 2D item at a greater
\* distance, then a 3D item again.
C5_Witness ==
    /\ res.op = "knn" /\ res.mux
    /\ \E j \in 1..(Len(calls) - 2) :
        /\ GeoDims(calls[j].item) = 3
        /\ GeoDims(calls[j + 1].item) = 2
        /\ GeoDims(calls[j + 2].item) = 3
        /\ calls[j].dist < calls[j + 1].dist

(***************************************************************************)
(* C6.  As stated: a producer that has appended an element waits until    *)
(* the consumer has taken it, so each producer's queue holds at most one   *)
(* element in every reachable state.                                       *)
(***************************************************************************)
C6_QueueAtMostOne == \A i \in {0, 1} : Len(queues[i]) <= 1

(***************************************************************************)
(* C7.  As stated: when the hybrid KNN has returned to its caller, both    *)
(* producer goroutines have terminated.                                    *)
(***************************************************************************)
C7_ReturnsAfterProducers == mpc = "idle" => ProducersGone

(***************************************************************************)
(* C8.  As stated: once the caller callback has returned false, the exit   *)
(* flag is set.                                                            *)
(***************************************************************************)
C8_ExitSetOnFalse == (res.op = "knn" /\ res.mux /\ ~res.ret) => exit

(***************************************************************************)
(* C8, amended.  When the caller callback returns false the exit flag is   *)
(* set unless both producers have signalled done (the drain loops return   *)
(* without setting it); once the flag is set no producer appends to a      *)
(* queue, a producer that attempts to yield stops its traversal at that    *)
(* attempt, and both producers eventually terminate.                       *)
(***************************************************************************)
C8_Cancellation ==
    /\ []((res.op = "knn" /\ res.mux /\ ~res.ret) => (exit \/ dones = 2))
    /\ [][(exit /\ ~ProducersGone) =>
            /\ queues' = queues
            /\ \A i \in {0, 1} :
                (fr[i].pc = "call" /\ fr'[i] # fr[i]) => fr'[i].pc = "retfalse"]_vars
    /\ (MuxRun /\ exit) ~> ProducersGone

\* The callback returned false, and a producer that then attempted to yield
\* has stopped with nothing appended.
C8_Witness ==
    /\ res.op = "knn" /\ res.mux /\ ~res.ret /\ exit
    /\ \E i \in {0, 1} : fr[i].pc = "retfalse"

(***************************************************************************)
(* C9.  In a hybrid KNN over two non-empty trees every invocation of the   *)
(* caller callback is made by the calling goroutine, and none starts       *)
(* while another is in progress.                                           *)
(***************************************************************************)
C9_OnlyConsumerCalls ==
    MuxRun =>
        /\ \A j \in 1..Len(calls) : calls[j].by = "main" /\ calls[j].during = {}
        /\ inCb \subseteq {"main"}

\* The callback is running for the second time or later while a producer
\* has an item to yield.
C9_Witness ==
    /\ MuxRun /\ mpc = "cb" /\ inCb = {"main"}
    /\ Len(calls) >= 2
    /\ \E i \in {0, 1} : fr[i].pc = "call"

(***************************************************************************)
(* C10.  A hybrid KNN over two non-empty trees whose callback always       *)
(* returns true returns, and returns true, having handed the callback      *)
(* every item of the 2D tree and every item of the 3D tree exactly once.   *)
(***************************************************************************)
C10_AllDelivered ==
    /\ []((res.op = "knn" /\ res.mux /\ klimit = NoLimit) =>
            /\ res.ret
            /\ NoDuplicates(CallItems)
            /\ SeqRange(CallItems) = present)
    /\ (MuxRun /\ mpc = "lock" /\ klimit = NoLimit) ~>
            (res.op = "knn" /\ res.mux /\ res.ret)

\* A finished merge over two items of each tree, the last of them handed
\* over by the drain loops.
C10_Witness ==
    /\ res.op = "knn" /\ res.mux /\ res.ret /\ klimit = NoLimit
    /\ Len(calls) = 4
    /\ mloc # <<0, 0>>

(***************************************************************************)
(* What the claims about bounds and structure compare the hybrid with.     *)
(***************************************************************************)
SetMin(S) == CHOOSE v \in S : \A w \in S : v <= w
SetMax(S) == CHOOSE v \in S : \A w \in S : v >= w

\* The axis-wise min/max of the rectangles of the items in S as geobin gives
\* them (a 2D item's rectangle has z = 0).
ItemsMin(S) == [i \in 1..3 |-> SetMin({GeoRectMin(h)[i] : h \in S})]
ItemsMax(S) == [i \in 1..3 |-> SetMax({GeoRectMax(h)[i] : h \in S})]

Zeros == <<0, 0, 0>>

\* The root is a leaf with no children and height 1.
EmptyLeafRoot(tr) ==
    /\ tr.nodes[tr.data].leaf
    /\ tr.nodes[tr.data].children = <<>>
    /\ tr.nodes[tr.data].height = 1

(***************************************************************************)
(* C11.  As stated: Bounds() of the hybrid after a set of inserts is the   *)
(* axis-wise min/max of the inserted items' rectangles, a 2D item counting *)
(* as z = 0; on an empty hybrid it is ({0,0,0},{0,0,0}).                   *)
(***************************************************************************)
C11_BoundsMinMax ==
    (res.op = "bounds" /\ nOps = 0) =>
        IF present = {}
        THEN res.min = Zeros /\ res.max = Zeros
        ELSE res.min = ItemsMin(present) /\ res.max = ItemsMax(present)

(***************************************************************************)
(* C12.  Once every item inserted has been removed, in whatever order,     *)
(* Count() of the hybrid is 0, Bounds() is all zeros, and the root of the  *)
(* 2D tree and the root of the 3D tree are leaves with no children and     *)
(* height 1.                                                               *)
(***************************************************************************)
C12_RemoveAllEmpties ==
    (present = {} /\ nRem >= 1) =>
        /\ HybridCount(tr2, tr3) = 0
        /\ HybridBounds(tr2, tr3) = [min |-> Zeros, max |-> Zeros]
        /\ EmptyLeafRoot(tr2)
        /\ EmptyLeafRoot(tr3)

\* All items of a full round are removed (the 2D tree had split), a Remove
\* of an absent item among the calls.
C12_Witness ==
    /\ present = {}
    /\ nRem = NRound
    /\ nOps > nRem
    /\ nIns = NRound

(***************************************************************************)
(* C13.  In every state reached by Insert and Remove, a Scan whose         *)
(* callback always returns true invokes it exactly once for every item     *)
(* stored and for nothing else and returns true; the Scan of the 2D tree   *)
(* and the Scan of the 3D tree each report the stored items of their       *)
(* dimensionality, and the hybrid Scan reports the 2D tree's items and     *)
(* then the 3D tree's.                                                     *)
(***************************************************************************)
NoCalls == [calls |-> <<>>, ok |-> TRUE]

\* r is the outcome of a scan that was to report the items in S.
ScansExactly(r, S) ==
    /\ r.ok
    /\ NoDuplicates(r.calls)
    /\ SeqRange(r.calls) = S

StoredOfDims(d) == {h \in present : GeoDims(h) = d}

C13_ScanVisitsAll ==
    /\ ScansExactly(Scan(tr2, NoLimit, NoCalls), StoredOfDims(2))
    /\ ScansExactly(Scan(tr3, NoLimit, NoCalls), StoredOfDims(3))
    /\ ScansExactly(HybridScan(tr2, tr3, NoLimit), present)
    /\ HybridScan(tr2, tr3, NoLimit).calls =
           Scan(tr2, NoLimit, NoCalls).calls \o Scan(tr3, NoLimit, NoCalls).calls

\* A 2D tree that has split and lost items to Remove calls since, with a 3D
\* item stored as well.
C13_Witness ==
    /\ rootHeight(tr2) >= 2
    /\ nRem >= 2
    /\ StoredOfDims(3) # {}
    /\ Cardinality(StoredOfDims(2)) >= 3

(***************************************************************************)
(* C14.  A Remove of an item that is not stored (never inserted, or        *)
(* removed before) leaves the tree as it was: the same root, the same      *)
(* nodes with the same children, boxes, heights and leaf flags, and the    *)
(* same Count().  This holds for every absent item in every state, and for *)
(* every Remove call made on an absent item.                               *)
(***************************************************************************)
AbsentItems == TreeItems(sel) \ present

C14_RemoveAbsentNoChange ==
    /\ [](\A h \in AbsentItems :
            /\ Remove(selTree, h) = selTree
            /\ Count(Remove(selTree, h)) = Count(selTree))
    /\ [][(nOps' = nOps + 1 /\ nRem' = nRem) => (tr2' = tr2 /\ tr3' = tr3)]_vars

\* A Remove call missed; the tree is of height 2 or more and the box of its
\* root contains the rectangle of an absent item (the search for it goes
\* down).
C14_Witness ==
    /\ nOps = 1 /\ nRem = 0
    /\ rootHeight(selTree) >= 2
    /\ \E h \in AbsentItems :
        contains(selTree.nodes[selTree.data], fillBBox(h, sel))

(***************************************************************************)
(* C15.  Search, Scan and KNN return false exactly when the caller         *)
(* callback has returned false, and the callback is not invoked again once *)
(* it has: a callback that returns false on invocation limit + 1 is        *)
(* invoked at most limit + 1 times, and the call returns false if and only *)
(* if it was.  A hybrid Search or Scan stopped in the 2D tree reports no   *)
(* item of the 3D tree.                                                    *)
(***************************************************************************)
\* The callback with this limit has returned false within n invocations.
SaidFalse(n, limit) == limit # NoLimit /\ n > limit

StopsAtFalse(n, limit, ret) ==
    /\ limit # NoLimit => n <= limit + 1
    /\ ret = ~SaidFalse(n, limit)

C15_StopsAtFalse ==
    /\ res.op \in {"hsearch", "hscan"} =>
        /\ StopsAtFalse(Len(res.calls), res.limit, res.ret)
        /\ (~res.ret /\ GeoDims(res.calls[Len(res.calls)]) = 2) =>
               \A j \in 1..Len(res.calls) : GeoDims(res.calls[j]) = 2
    /\ klimit # NoLimit => Len(calls) <= klimit + 1
    /\ res.op = "knn" => StopsAtFalse(Len(calls), klimit, res.ret)

\* A hybrid Scan stopped at the second item of the 2D tree while the 3D tree
\* holds items.
C15_Witness ==
    /\ res.op = "hscan" /\ res.limit = 1 /\ ~res.ret
    /\ Len(res.calls) = 2
    /\ GeoDims(res.calls[2]) = 2
    /\ StoredOfDims(3) # {}

(***************************************************************************)
(* C16.  On an index that holds no item, freshly created or emptied by     *)
(* Remove calls, Search and KNN invoke the callback zero times and return  *)
(* true: the hybrid's (whose KNN then starts no goroutine), and those of   *)
(* an empty 2D or 3D tree.                                                 *)
(***************************************************************************)
\* The point a tree of dimension d is given.
PointOfDim(p, d) == [i \in 1..d |-> p[i]]

C16_EmptyIndex ==
    /\ (res.op = "hsearch" /\ present = {}) => (res.calls = <<>> /\ res.ret)
    /\ (res.op = "knn" /\ present = {}) =>
        (res.ret /\ calls = <<>> /\ \A i \in {0, 1} : fr[i] = FrameOff)
    /\ present = {} => \A i \in {0, 1} : fr[i].by # "producer"
    /\ \A i \in {0, 1} :
        StoredOfDims(i + 2) = {} =>
            /\ \A q \in HQueryBoxes, limit \in {NoLimit, 0} :
                   Search(treeOf(i), q, limit, NoCalls) = NoCalls
            /\ \A p \in KnnPositions :
                   \A f \in knnAdvance(treeOf(i), knnBegin(treeOf(i), "main"),
                                       PointOfDim(p, i + 2)) :
                       f.pc = "rettrue"

\* KNN has returned on a hybrid emptied by Remove calls.
C16_Witness ==
    /\ res.op = "knn"
    /\ present = {}
    /\ nRem = 2

(***************************************************************************)
(* C17.  As stated: after any sequence of Insert and Remove calls of the   *)
(* hybrid, an item is in at most one leaf, and that leaf is of the tree    *)
(* that matches the item's dimensionality.                                 *)
(***************************************************************************)
LeavesWith(tr, h) == {n \in DOMAIN tr.nodes : \E s \in Slots(tr, h) : s[1] = n}

C17_AtMostOneLeaf ==
    \A h \in present \cup gone :
        /\ Cardinality(LeavesWith(tr2, h)) + Cardinality(LeavesWith(tr3, h)) <= 1
        /\ GeoDims(h) = 2 => LeavesWith(tr3, h) = {}
        /\ GeoDims(h) = 3 => LeavesWith(tr2, h) = {}

(***************************************************************************)
(* C17, amended.  As long as the hybrid holds no item that was inserted    *)
(* while it was stored, every stored item is in exactly one slot of one    *)
(* leaf, of the tree that matches its dimensionality, and an item that is  *)
(* not stored is in no leaf.  (Insert does not look for the item: an item  *)
(* inserted twice is stored twice, and a split may part the copies.)       *)
(***************************************************************************)
C17_OneSlotIfDistinct ==
    ExtraCopies = 0 =>
        \A h \in present \cup gone :
            /\ Cardinality(Slots(tr2, h)) =
                   IF h \in present /\ GeoDims(h) = 2 THEN 1 ELSE 0
            /\ Cardinality(Slots(tr3, h)) =
                   IF h \in present /\ GeoDims(h) # 2 THEN 1 ELSE 0

\* Distinct items only, an item removed, and a 2D tree that has split: its
\* items are spread over two leaves.
C17_Witness ==
    /\ ExtraCopies = 0
    /\ nRem = 1
    /\ rootHeight(tr2) >= 2
    /\ StoredOfDims(3) # {}

(***************************************************************************)
(* C18.  Round trip: once every item of a round has been removed, in       *)
(* whatever order, both trees are empty, and while the same items are      *)
(* inserted again Count() is the number of items stored; with all of them  *)
(* inserted again it is the count the hybrid had before the first Remove.  *)
(***************************************************************************)
AllRemovedOnce == nRem >= 1 /\ nRem = Cardinality(present \cup gone)

C18_RoundTrip ==
    AllRemovedOnce =>
        /\ HybridCount(tr2, tr3) = Cardinality(present)
        /\ present = {} => (isEmpty(tr2) /\ isEmpty(tr3) /\ HybridCount(tr2, tr3) = 0)
        /\ gone = {} =>
            /\ HybridCount(tr2, tr3) = nRem
            /\ HybridCount(tr2, tr3) = nIns - nRem

\* A full round: eleven items inserted, all removed, all inserted again (the
\* 2D tree splits a second time).
C18_Witness ==
    /\ AllRemovedOnce
    /\ gone = {}
    /\ nRem = NRound
    /\ rootHeight(tr2) >= 2

(***************************************************************************)
(* What the structural claims speak of: the nodes of a tree but its root.  *)
(***************************************************************************)
NonRoot(tr) == DOMAIN tr.nodes \ {tr.data}

NumChildren(tr, n) == Len(tr.nodes[n].children)

(***************************************************************************)
(* C19.  As stated: after every Insert and every Remove, every node but    *)
(* the root has between m and M children.                                  *)
(***************************************************************************)
C19_MinMaxEntries ==
    \A n \in NonRoot(selTree) :
        /\ selTree.minEntries <= NumChildren(selTree, n)
        /\ NumChildren(selTree, n) <= selTree.maxEntries

(***************************************************************************)
(* C19, amended.  After every Insert and every Remove, every node but the  *)
(* root has at least one and at most M children, and at least m as long as *)
(* no Remove has taken an item out of the tree (a Remove does not refill   *)
(* or dissolve a node left with fewer than m children).                    *)
(***************************************************************************)
C19_Occupancy ==
    \A n \in NonRoot(selTree) :
        /\ 1 <= NumChildren(selTree, n)
        /\ NumChildren(selTree, n) <= selTree.maxEntries
        /\ nRem = 0 => selTree.minEntries <= NumChildren(selTree, n)

\* A tree of height 3 from which a Remove took an item, leaving a node with
\* fewer than m children.
C19_Witness ==
    /\ nRem = 1
    /\ rootHeight(selTree) = 3
    /\ \E n \in NonRoot(selTree) : NumChildren(selTree, n) < selTree.minEntries

(***************************************************************************)
(* C20.  After every Insert and every Remove, the box of every node that   *)
(* has children is exactly the union of the boxes of its children: of the  *)
(* child nodes' boxes for a non-leaf, of the items' rectangles for a leaf. *)
(***************************************************************************)
\* The union of the boxes of the children of node n, axis by axis.
ChildrenMin(tr, n) ==
    [i \in 1..tr.dim |->
        SetMin({childBox(tr, n, tr.nodes[n].children[c]).min[i] :
                   c \in 1..NumChildren(tr, n)})]

ChildrenMax(tr, n) ==
    [i \in 1..tr.dim |->
        SetMax({childBox(tr, n, tr.nodes[n].children[c]).max[i] :
                   c \in 1..NumChildren(tr, n)})]

C20_TightBoxes ==
    \A n \in DOMAIN selTree.nodes :
        NumChildren(selTree, n) > 0 =>
            /\ selTree.nodes[n].min = ChildrenMin(selTree, n)
            /\ selTree.nodes[n].max = ChildrenMax(selTree, n)

\* A tree of height 3 (nodes have split at two levels) from which a Remove
\* took an item, and which has received items since.
C20_Witness ==
    /\ nRem = 1
    /\ rootHeight(selTree) = 3
    /\ \E h \in present : \E g \in gone : h > g

(***************************************************************************)
(* C21.  After every Insert and every Remove, every child of a non-leaf    *)
(* node N has height N.height - 1, a node is a leaf exactly if its height  *)
(* is 1, and all leaves lie at the same depth below the root.              *)
(***************************************************************************)
\* The depths (root = 0) at which the leaves below node n lie, n at depth d.
RECURSIVE LeafDepths(_, _, _)
LeafDepths(tr, n, d) ==
    IF tr.nodes[n].leaf THEN {d}
    ELSE UNION {LeafDepths(tr, tr.nodes[n].children[i], d + 1) :
                   i \in 1..NumChildren(tr, n)}

HeightsOK(tr) ==
    /\ \A n \in DOMAIN tr.nodes :
        /\ tr.nodes[n].leaf <=> tr.nodes[n].height = 1
        /\ ~tr.nodes[n].leaf =>
              \A i \in 1..NumChildren(tr, n) :
                  tr.nodes[tr.nodes[n].children[i]].height = tr.nodes[n].height - 1
    /\ Cardinality(LeafDepths(tr, tr.data, 0)) = 1

C21_Heights == HeightsOK(selTree)

\* A tree whose nodes have split at two levels (leaves at depth 2), after a
\* Remove that hit.
C21_Witness ==
    /\ nRem = 1
    /\ LeafDepths(selTree, selTree.data, 0) = {2}
    /\ selTree.nodes[selTree.data].height = 3

(***************************************************************************)
(* C22.  After every Insert and every Remove, the root has between 0 and M *)
(* children, and a root with no children is a leaf of height 1.            *)
(***************************************************************************)
RootOK(tr) ==
    /\ NumChildren(tr, tr.data) <= tr.maxEntries
    /\ NumChildren(tr, tr.data) = 0 => EmptyLeafRoot(tr)

C22_Root == RootOK(tr2) /\ RootOK(tr3)

\* The 2D tree held M + 1 items (its root was split, the new root had two
\* children) and the last of them has just been removed.
C22_Witness ==
    /\ nIns = NRound
    /\ nRem = NRound
    /\ present = {}
    /\ nOps = nRem
    /\ NumChildren(tr2, tr2.data) = 0

(***************************************************************************)
(* The calls of split that the next Insert makes.  In a state of a         *)
(* standalone-tree run the caller's next Insert is of item NextItems; the  *)
(* claims about split and its parts apply them to the tree as insert hands *)
(* it over: the item appended to the chosen node, the node over M.         *)
(***************************************************************************)
NextItems ==
    {h \in TreeItems(sel) :
        h \notin present /\ ItemIndex(h) = Cardinality(present \cup gone) + 1}

\* insert up to its split loop: the path, and the tree with the item in the
\* chosen node.
Chosen(tr, item) ==
    chooseSubtree(tr, fillBBox(item, tr.dim), tr.data, rootHeight(tr) - 1, <<>>, nil)

Appended(tr, item) ==
    [tr EXCEPT !.nodes[Chosen(tr, item).node] =
        extend([@ EXCEPT !.children = Append(@, item)], fillBBox(item, tr.dim))]

\* The arguments (and the tree) of each call of split in the split loop.
RECURSIVE SplitCallsFrom(_, _, _)
SplitCallsFrom(tr, path, level) ==
    IF level >= 0 /\ Len(tr.nodes[path[level + 1]].children) > tr.maxEntries
    THEN {[tr |-> tr, path |-> path, level |-> level]}
            \cup SplitCallsFrom(split(tr, path, level), path, level - 1)
    ELSE {}

SplitCalls(tr, item) ==
    SplitCallsFrom(Appended(tr, item), Chosen(tr, item).path, rootHeight(tr) - 1)

NextSplitCalls == UNION {SplitCalls(selTree, h) : h \in NextItems}

\* How often each element occurs in sequence s.
SeqBag(s) == [x \in SeqRange(s) |-> Cardinality({i \in 1..Len(s) : s[i] = x})]

TightBox(tr, n) ==
    /\ tr.nodes[n].min = ChildrenMin(tr, n)
    /\ tr.nodes[n].max = ChildrenMax(tr, n)

(***************************************************************************)
(* C23.  split of a node that holds M + 1 children leaves the node and one *)
(* new node that together hold exactly those children (the same multiset), *)
(* each between m and M of them, both with the node's height and leaf flag *)
(* and with boxes that are the union of their children's.  If the node was *)
(* the root (level 0), the tree gets a new non-leaf root of height + 1     *)
(* whose children are the node and the new node; else the root stays and   *)
(* the new node is appended to the parent's children.                      *)
(***************************************************************************)
SplitOK(pre, path, level, post) ==
    LET node == path[level + 1]
        added == DOMAIN post.nodes \ DOMAIN pre.nodes
        sibs == added \ {post.data}
    IN  /\ Len(pre.nodes[node].children) = pre.maxEntries + 1
        /\ Cardinality(sibs) = 1
        /\ \A new \in sibs :
            /\ SeqBag(post.nodes[node].children \o post.nodes[new].children)
                  = SeqBag(pre.nodes[node].children)
            /\ Len(post.nodes[node].children) + Len(post.nodes[new].children)
                  = Len(pre.nodes[node].children)
            /\ \A n \in {node, new} :
                /\ pre.minEntries <= NumChildren(post, n)
                /\ NumChildren(post, n) <= pre.maxEntries
                /\ post.nodes[n].height = pre.nodes[node].height
                /\ post.nodes[n].leaf = pre.nodes[node].leaf
                /\ TightBox(post, n)
            /\ IF level = 0
               THEN /\ post.data \in added
                    /\ ~post.nodes[post.data].leaf
                    /\ post.nodes[post.data].height = pre.nodes[node].height + 1
                    /\ post.nodes[post.data].children = <<node, new>>
               ELSE /\ post.data = pre.data
                    /\ added = sibs
                    /\ post.nodes[path[level]].children
                          = Append(pre.nodes[path[level]].children, new)

C23_Split ==
    \A c \in NextSplitCalls : SplitOK(c.tr, c.path, c.level, split(c.tr, c.path, c.level))

\* The next Insert splits a leaf that is not the root and then the root
\* above it.
C23_Witness ==
    /\ \E c \in NextSplitCalls : c.level = 0 /\ ~c.tr.nodes[c.path[1]].leaf
    /\ \E c \in NextSplitCalls : c.level > 0

(***************************************************************************)
(* C24.  As stated: among the candidate indexes m..M-m (M the number of    *)
(* children of the node being split) chooseSplitIndex returns the index i  *)
(* of least overlap o(i) = intersectionArea(box of children[0..i), box of  *)
(* children[i..M)); among those of least overlap the one of least area     *)
(* a(i) = area(left) + area(right); among those the smallest.              *)
(***************************************************************************)
SplitOverlap(tr, node, i) ==
    intersectionArea(distBBox(tr, node, 0, i),
                     distBBox(tr, node, i, Len(tr.nodes[node].children)))

SplitArea(tr, node, i) ==
    area(distBBox(tr, node, 0, i))
        + area(distBBox(tr, node, i, Len(tr.nodes[node].children)))

\* Candidate i is better than or as good as candidate j: overlap, then
\* area, then the index.
SplitBefore(tr, node, i, j) ==
    \/ SplitOverlap(tr, node, i) < SplitOverlap(tr, node, j)
    \/ /\ SplitOverlap(tr, node, i) = SplitOverlap(tr, node, j)
       /\ \/ SplitArea(tr, node, i) < SplitArea(tr, node, j)
          \/ SplitArea(tr, node, i) = SplitArea(tr, node, j) /\ i <= j

SplitCandidates(tr, node) ==
    tr.minEntries..(Len(tr.nodes[node].children) - tr.minEntries)

BestSplitIndex(tr, node) ==
    CHOOSE i \in SplitCandidates(tr, node) :
        \A j \in SplitCandidates(tr, node) : SplitBefore(tr, node, i, j)

\* The node of split call c as chooseSplitAxis leaves it for chooseSplitIndex.
AxisChosen(c) ==
    chooseSplitAxis(c.tr, c.path[c.level + 1], c.tr.minEntries,
                    Len(c.tr.nodes[c.path[c.level + 1]].children))

SplitIndexOf(c) ==
    chooseSplitIndex(AxisChosen(c), c.path[c.level + 1], c.tr.minEntries,
                     Len(c.tr.nodes[c.path[c.level + 1]].children))

C24_SplitIndexLexMin ==
    \A h \in SNextItems : \A c \in SplitCalls(selTree, h) :
        SplitIndexOf(c) = BestSplitIndex(AxisChosen(c), c.path[c.level + 1])

(***************************************************************************)
(* C25.  As stated: for an overflowing node with M + 1 children, M the     *)
(* tree's maxEntries, the index chooseSplitIndex returns lies in m..M-m.   *)
(***************************************************************************)
C25_IndexUpToMaxMinusMin ==
    \A c \in NextSplitCalls :
        /\ c.tr.minEntries <= SplitIndexOf(c)
        /\ SplitIndexOf(c) <= c.tr.maxEntries - c.tr.minEntries

(***************************************************************************)
(* C25, amended.  For an overflowing node with M + 1 children, M the       *)
(* tree's maxEntries, the index chooseSplitIndex returns lies in           *)
(* m..M+1-m: split passes the number of children, M + 1, as the M of       *)
(* chooseSplitIndex, whose loop runs from m to that number minus m.        *)
(***************************************************************************)
C25_IndexRange ==
    \A c \in NextSplitCalls :
        /\ Len(c.tr.nodes[c.path[c.level + 1]].children) = c.tr.maxEntries + 1
        /\ c.tr.minEntries <= SplitIndexOf(c)
        /\ SplitIndexOf(c) <= c.tr.maxEntries + 1 - c.tr.minEntries

\* The next Insert splits a node at index M + 1 - m, the last candidate.
C25_Witness ==
    \E c \in NextSplitCalls :
        SplitIndexOf(c) = c.tr.maxEntries + 1 - c.tr.minEntries

(***************************************************************************)
(* C26.  As stated: on Insert's way down, at each non-leaf node            *)
(* chooseSubtree takes the child of least enlargement                      *)
(* enlargedArea(bbox, child) - area(child); among those of least           *)
(* enlargement the one of least area; among those the first in the order   *)
(* of the children.                                                        *)
(***************************************************************************)
Enlargement(tr, child, bbox) == enlargedArea(bbox, tr.nodes[child]) - area(tr.nodes[child])

\* Child number i of node n is better than or as good as child number j.
ChildBefore(tr, n, bbox, i, j) ==
    LET ci == tr.nodes[n].children[i]
        cj == tr.nodes[n].children[j]
    IN  \/ Enlargement(tr, ci, bbox) < Enlargement(tr, cj, bbox)
        \/ /\ Enlargement(tr, ci, bbox) = Enlargement(tr, cj, bbox)
           /\ \/ area(tr.nodes[ci]) < area(tr.nodes[cj])
              \/ area(tr.nodes[ci]) = area(tr.nodes[cj]) /\ i <= j

BestChild(tr, n, bbox) ==
    tr.nodes[n].children[
        CHOOSE i \in 1..NumChildren(tr, n) :
            \A j \in 1..NumChildren(tr, n) : ChildBefore(tr, n, bbox, i, j)]

\* Every step of the path Insert(tr, item) takes goes to the best child.
DescentIsBest(tr, item) ==
    LET path == Chosen(tr, item).path IN
    \A k \in 1..(Len(path) - 1) :
        path[k + 1] = BestChild(tr, path[k], fillBBox(item, tr.dim))

\* The items an Insert may be given: any item that is not stored.
Insertable == TreeItems(sel) \ present

C26_SubtreeLexMin == \A h \in Insertable : DescentIsBest(selTree, h)

(***************************************************************************)
(* C27.  After chooseSplitAxis the node's children are the same children,  *)
(* sorted by the min coordinate of an axis whose allDistMargin is the      *)
(* smallest of all axes: in 2D x if x-margin < y-margin, else y; in 3D x   *)
(* if x-margin is below both others, else y if y-margin is below           *)
(* z-margin, else z.  The margins are those chooseSplitAxis computes: of   *)
(* x on the node as it is, of y on the node sorted by x, of z on the node  *)
(* sorted by y.                                                            *)
(***************************************************************************)
\* The margins of the axes 1..dim, as chooseSplitAxis computes them in turn.
RECURSIVE AxisMarginsFrom(_, _, _, _, _)
AxisMarginsFrom(tr, node, m, M, d) ==
    IF d > tr.dim THEN <<>>
    ELSE <<allDistMargin(tr, node, m, M, d).margin>>
            \o AxisMarginsFrom(allDistMargin(tr, node, m, M, d).tr, node, m, M, d + 1)

AxisMargins(c) ==
    AxisMarginsFrom(c.tr, c.path[c.level + 1], c.tr.minEntries,
                    Len(c.tr.nodes[c.path[c.level + 1]].children), 1)

\* The axis the claim names, given the margins mg.
AxisOfMargins(mg) ==
    IF Len(mg) = 2 THEN (IF mg[1] < mg[2] THEN 1 ELSE 2)
    ELSE IF mg[1] < mg[2] /\ mg[1] < mg[3] THEN 1
    ELSE IF mg[2] <= mg[1] /\ mg[2] < mg[3] THEN 2
    ELSE 3

SortedByAxis(tr, node, d) ==
    \A i, j \in 1..NumChildren(tr, node) :
        i < j => childBox(tr, node, tr.nodes[node].children[i]).min[d]
                    <= childBox(tr, node, tr.nodes[node].children[j]).min[d]

AxisOK(c, mg, post) ==
    LET node == c.path[c.level + 1] IN
    /\ \A d \in 1..c.tr.dim : mg[AxisOfMargins(mg)] <= mg[d]
    /\ SortedByAxis(post, node, AxisOfMargins(mg))
    /\ SeqBag(post.nodes[node].children) = SeqBag(c.tr.nodes[node].children)
    /\ Len(post.nodes[node].children) = Len(c.tr.nodes[node].children)

C27_SplitAxis ==
    \A c \in NextSplitCalls : AxisOK(c, AxisMargins(c), AxisChosen(c))

\* The next Insert splits a node of the 3D tree that is not sorted by y
\* when split is called, and y is the axis chosen.
C27_Witness ==
    \E c \in NextSplitCalls :
        /\ c.tr.dim = 3
        /\ AxisOfMargins(AxisMargins(c)) = 2
        /\ ~SortedByAxis(c.tr, c.path[c.level + 1], 2)

(***************************************************************************)
(* C28.  Bounds() of the hybrid returns zeros if nothing is stored; the 3D *)
(* tree's bounds if only 3D items are stored; the 2D tree's bounds with    *)
(* z = 0 if only 2D items are stored; otherwise, on x and y, the lesser    *)
(* min and the greater max of the two trees' bounds, and on z the 3D       *)
(* tree's bounds as they are.                                              *)
(***************************************************************************)
ExpectedBounds ==
    IF present = {} THEN [min |-> Zeros, max |-> Zeros]
    ELSE IF StoredOfDims(2) = {} THEN Bounds(tr3)
    ELSE IF StoredOfDims(3) = {}
    THEN [min |-> <<Bounds(tr2).min[1], Bounds(tr2).min[2], 0>>,
          max |-> <<Bounds(tr2).max[1], Bounds(tr2).max[2], 0>>]
    ELSE [min |-> <<SetMin({Bounds(tr2).min[1], Bounds(tr3).min[1]}),
                    SetMin({Bounds(tr2).min[2], Bounds(tr3).min[2]}),
                    Bounds(tr3).min[3]>>,
          max |-> <<SetMax({Bounds(tr2).max[1], Bounds(tr3).max[1]}),
                    SetMax({Bounds(tr2).max[2], Bounds(tr3).max[2]}),
                    Bounds(tr3).max[3]>>]

IsEmptyRect(r) ==
    \E i \in DOMAIN r.min : r.min[i] = mathInfPos \/ r.max[i] = mathInfNeg

TraverseRects(tr) ==
    {Traverse(tr, NoLimit).calls[j] : j \in 1..Len(Traverse(tr, NoLimit).calls)}

C29_NoEmptyRect ==
    /\ ~IsEmptyRect(Bounds(selTree))
    /\ ~IsEmptyRect(HybridBounds(tr2, tr3))
    /\ \A r \in TraverseRects(selTree) : ~IsEmptyRect(r)

(***************************************************************************)
(* C30.  KNN of the hybrid: with nothing stored it returns true, no        *)
(* callback invoked and no tr.KNN started.  With items in one tree only    *)
(* it runs that tree's KNN on the calling goroutine (no producer, no       *)
(* merge), the other tree's KNN is not started, and the distances handed   *)
(* to the callback are those of the tree's dimension (x and y only for the *)
(* 2D tree).  The two producers run and the result is a merge's only with  *)
(* items in both trees.                                                    *)
(***************************************************************************)
OnlyTree(i) == StoredOfDims(i + 2) # {} /\ StoredOfDims(3 - i) = {}

BothTrees == StoredOfDims(2) # {} /\ StoredOfDims(3) # {}

C30_KnnDispatch ==
    /\ present = {} =>
        /\ mpc = "idle"
        /\ calls = <<>>
        /\ \A i \in {0, 1} : fr[i] = FrameOff
        /\ res.op = "knn" => (res.ret /\ ~res.mux)
    /\ \A i \in {0, 1} :
        OnlyTree(i) =>
            /\ mpc \in {"idle", "direct"}
            /\ fr[1 - i] = FrameOff
            /\ fr[i].by = "main"
            /\ res.op = "knn" => ~res.mux
            /\ \A j \in 1..Len(calls) :
                /\ calls[j].by = "main"
                /\ calls[j].during = {}
                /\ GeoDims(calls[j].item) = i + 2
                /\ calls[j].dist = ExpDist(calls[j].item, kpos, i + 2)
    /\ BothTrees =>
        /\ mpc # "direct"
        /\ mpc # "idle" => \A i \in {0, 1} : fr[i].by = "producer"
        /\ res.op = "knn" => res.mux
    /\ (\E i \in {0, 1} : fr[i].by = "producer") => BothTrees

\* A KNN of a hybrid that holds 2D items only, from a point off the plane
\* z = 0, has handed over two items and returned.
C30_Witness ==
    /\ res.op = "knn"
    /\ OnlyTree(0)
    /\ kpos[3] # 0
    /\ Len(calls) >= 2
    /\ \E j \in 1..Len(calls) : calls[j].dist > 0

(***************************************************************************)
(* C31.  For every Options.MaxEntries the tree has M = max(4, MaxEntries)  *)
(* and m = max(2, ceil(0.4 * M)); the 2D tree and the default options give *)
(* M = 9 and m = 4.  For a node with M + 1 children the split indexes      *)
(* m..M+1-m are at least one, the index chosen is one of them, and it      *)
(* leaves at least m children on each side.                                *)
(***************************************************************************)
\* The least integer not below 4 * M / 10.
CeilFourTenths(M) == CHOOSE k \in 0..M : 10 * k >= 4 * M /\ 10 * (k - 1) < 4 * M

EntriesOK(tr, MaxEntries) ==
    /\ tr.maxEntries = (IF MaxEntries > 4 THEN MaxEntries ELSE 4)
    /\ tr.minEntries =
          (IF CeilFourTenths(tr.maxEntries) > 2
           THEN CeilFourTenths(tr.maxEntries) ELSE 2)

SplitRangeOK(c) ==
    LET n == Len(c.tr.nodes[c.path[c.level + 1]].children) IN
    /\ n = c.tr.maxEntries + 1
    /\ c.tr.minEntries <= n - c.tr.minEntries
    /\ SplitIndexOf(c) \in c.tr.minEntries..(n - c.tr.minEntries)
    /\ SplitIndexOf(c) >= c.tr.minEntries
    /\ n - SplitIndexOf(c) >= c.tr.minEntries

C31_Entries ==
    /\ res.op = "new" => EntriesOK(tr3, res.MaxEntries)
    /\ EntriesOK(tr2, defaultMaxEntries)
    /\ tr2.maxEntries = 9 /\ tr2.minEntries = 4
    /\ \A h \in ONextItems : \A c \in SplitCalls(selTree, h) : SplitRangeOK(c)

\* A tree made with MaxEntries under 4 is about to split a node of 5
\* children, and one made with MaxEntries 10 a node of 11.
C31_Witness ==
    /\ res.op = "new"
    /\ \/ res.MaxEntries < 4 /\ tr3.maxEntries = 4
       \/ res.MaxEntries = 10 /\ tr3.minEntries = 4
    /\ \E h \in ONextItems : SplitCalls(selTree, h) # {}

(***************************************************************************)
(* C32.  Traverse calls iter for each node with the node's box, its height *)
(* and no item, and for each child of a leaf with the item's rectangle,    *)
(* level 0 and the item: level 0 comes with items only, level 1 with leaf  *)
(* nodes only, every stored item comes exactly once, and after the first   *)
(* call that returns false no further call is made.                        *)
(***************************************************************************)
TraverseLimits == {0, 1, 3, 6}

NodeCalls(cs) == {j \in 1..Len(cs) : cs[j].item = nil}
ItemCalls(cs) == {j \in 1..Len(cs) : cs[j].item # nil}

\* A full traversal: what is emitted.
TraverseEmits(tr, cs) ==
    /\ Cardinality(NodeCalls(cs)) = Cardinality(DOMAIN tr.nodes)
    /\ \A n \in DOMAIN tr.nodes :
          Cardinality({j \in NodeCalls(cs) :
                          /\ cs[j].min = tr.nodes[n].min
                          /\ cs[j].max = tr.nodes[n].max
                          /\ cs[j].level = tr.nodes[n].height})
            >= Cardinality({o \in DOMAIN tr.nodes :
                               /\ tr.nodes[o].min = tr.nodes[n].min
                               /\ tr.nodes[o].max = tr.nodes[n].max
                               /\ tr.nodes[o].height = tr.nodes[n].height})
    /\ \A h \in present : Cardinality({j \in ItemCalls(cs) : cs[j].item = h}) = 1
    /\ \A j \in ItemCalls(cs) :
          /\ cs[j].item \in present
          /\ cs[j].level = 0
          /\ cs[j].min = fillBBox(cs[j].item, tr.dim).min
          /\ cs[j].max = fillBBox(cs[j].item, tr.dim).max

\* A full traversal: levels.  A node call of level 1 is a leaf's (items or
\* the next node follow it), one of a higher level is followed by the call
\* for its first child node; items follow a leaf's call or another item.
TraverseLevels(cs) ==
    /\ \A j \in NodeCalls(cs) :
          /\ cs[j].level >= 1
          /\ cs[j].level > 1 =>
                j < Len(cs) /\ cs[j + 1].item = nil /\ cs[j + 1].level = cs[j].level - 1
    /\ \A j \in ItemCalls(cs) :
          /\ j > 1
          /\ cs[j - 1].item # nil \/ cs[j - 1].level = 1

\* With a callback that returns false at call number limit + 1.
TraverseStops(full, limit, r) ==
    /\ r.calls = SubSeq(full.calls, 1, mathMin(Len(full.calls), limit + 1))
    /\ r.ok = (Len(full.calls) <= limit)

TraverseOK(tr) ==
    /\ Traverse(tr, NoLimit).ok
    /\ TraverseEmits(tr, Traverse(tr, NoLimit).calls)
    /\ TraverseLevels(Traverse(tr, NoLimit).calls)
    /\ \A limit \in TraverseLimits :
          TraverseStops(Traverse(tr, NoLimit), limit, Traverse(tr, limit))

C32_Traverse == TraverseOK(selTree)

\* A tree of height 3 after a Remove, and a callback that stops a traversal
\* inside a leaf.
C32_Witness ==
    /\ rootHeight(selTree) = 3
    /\ nRem >= 1
    /\ \E limit \in TraverseLimits :
          /\ ~Traverse(selTree, limit).ok
          /\ Traverse(selTree, limit).calls[limit + 1].item # nil

(***************************************************************************)
(* C33.  For any query point p, any node N and any item I stored below N,  *)
(* boxDist(p, I's rectangle) >= boxDist(p, N's box); so KNN hands an item  *)
(* to its callback only when no entry of its priority queue has a strictly *)
(* smaller distance (and no stored item not yet delivered is nearer).      *)
(***************************************************************************)
ProbePoints == {<<x, y, z>> : x \in {-3, 3, 9}, y \in {-3, 4, 9}, z \in {-3, 0, 4}}

RECURSIVE ItemsBelow(_, _)
ItemsBelow(tr, n) ==
    IF tr.nodes[n].leaf THEN SeqRange(tr.nodes[n].children)
    ELSE UNION {ItemsBelow(tr, tr.nodes[n].children[i]) :
                   i \in 1..Len(tr.nodes[n].children)}

BoxDistMonotone(tr, p) ==
    \A n \in DOMAIN tr.nodes :
        /\ \A h \in ItemsBelow(tr, n) :
              boxDist(p, fillBBox(h, tr.dim)) >= boxDist(p, tr.nodes[n])
        /\ ~tr.nodes[n].leaf =>
              \A c \in SeqRange(tr.nodes[n].children) :
                  boxDist(p, tr.nodes[c]) >= boxDist(p, tr.nodes[n])

Delivering(idx) == fr[idx].pc = "call"

NothingNearer(idx) ==
    /\ \A e \in fr[idx].queue : e.dist >= fr[idx].cur.dist
    /\ \A h \in StoredOfDims(idx + 2) \ (SeqRange(CallItems) \cup {fr[idx].cur.ref}) :
          ExpDist(h, kposOf(idx), idx + 2) >= fr[idx].cur.dist

\* The tree changes only between calls of KNN, with the record of the last
\* call cleared: there the box distances are probed from every point of
\* ProbePoints, and during a call from the point the call was given.
C33_BoxDistMonotone ==
    /\ (mpc = "idle" /\ calls = <<>>) =>
          \A p \in ProbePoints : BoxDistMonotone(selTree, p)
    /\ BoxDistMonotone(selTree, kpos)
    /\ \A idx \in {0, 1} : Delivering(idx) => NothingNearer(idx)

\* An item at a distance above 0 is being delivered while a node farther
\* away waits in the queue, in a tree where some item is farther from the
\* point than the leaf that holds it.
C33_Witness ==
    \E idx \in {0, 1} :
        /\ Delivering(idx)
        /\ fr[idx].cur.dist > 0
        /\ \E e \in fr[idx].queue : ~e.isItem /\ e.dist > fr[idx].cur.dist
        /\ \E n \in DOMAIN selTree.nodes : \E h \in ItemsBelow(selTree, n) :
              boxDist(kpos, fillBBox(h, selTree.dim)) > boxDist(kpos, selTree.nodes[n])
                /\ boxDist(kpos, selTree.nodes[n]) > 0

(***************************************************************************)
(* C34.  After every Remove no node other than the root has 0 children:    *)
(* condense unlinks each node the Remove has emptied from its parent,      *)
(* from the leaf upward, and a root left with 0 children is replaced by a  *)
(* fresh empty leaf root of height 1.                                      *)
(***************************************************************************)
LeafOf(tr, h) ==
    CHOOSE n \in DOMAIN tr.nodes : tr.nodes[n].leaf /\ h \in SeqRange(tr.nodes[n].children)

ParentOf(tr, n) ==
    CHOOSE q \in DOMAIN tr.nodes : ~tr.nodes[q].leaf /\ n \in SeqRange(tr.nodes[q].children)

\* The nodes that run empty when node n loses a child: n if that was its
\* only child, then n's parent if n was its only child, and so on.
RECURSIVE EmptiedFrom(_, _)
EmptiedFrom(tr, n) ==
    IF Len(tr.nodes[n].children) # 1 THEN {}
    ELSE {n} \cup (IF n = tr.data THEN {} ELSE EmptiedFrom(tr, ParentOf(tr, n)))

Emptied(tr, h) == EmptiedFrom(tr, LeafOf(tr, h))

NoEmptyNonRoot(tr) == \A n \in NonRoot(tr) : NumChildren(tr, n) >= 1

CondenseOK(pre, h, post) ==
    /\ NoEmptyNonRoot(post)
    /\ IF pre.data \in Emptied(pre, h)
       THEN /\ DOMAIN post.nodes = {post.data}
            /\ post.nodes[post.data] = createNode(<<>>, pre.dim)
       ELSE /\ post.data = pre.data
            /\ DOMAIN post.nodes = DOMAIN pre.nodes \ Emptied(pre, h)
            /\ \A n \in DOMAIN post.nodes :
                  /\ post.nodes[n].height = pre.nodes[n].height
                  /\ post.nodes[n].leaf = pre.nodes[n].leaf
                  /\ post.nodes[n].children =
                        IF n = LeafOf(pre, h)
                        THEN removeAt(pre.nodes[n].children,
                                      indexOf(pre.nodes[n].children, h))
                        ELSE IF pre.nodes[n].leaf THEN pre.nodes[n].children
                        ELSE SelectSeq(pre.nodes[n].children,
                                       LAMBDA c : c \notin Emptied(pre, h))

C34_Condense ==
    /\ NoEmptyNonRoot(selTree)
    /\ RootOK(selTree)
    /\ \A h \in present : CondenseOK(selTree, h, Remove(selTree, h))

\* After some Removes: one Remove would empty a leaf and its parent, which
\* is not the root, and another Remove (or the same) would empty the root.
C34_CascadeBelowRoot ==
    \E h \in present :
        Cardinality(Emptied(selTree, h)) >= 2 /\ selTree.data \notin Emptied(selTree, h)

C34_Witness ==
    /\ nRem >= 1
    /\ C34_CascadeBelowRoot

\* One more Remove would empty the whole chain from a leaf up to a root of
\* height 3.
C34_RootCascade ==
    \E h \in present :
        rootHeight(selTree) = 3 /\ selTree.data \in Emptied(selTree, h)

(***************************************************************************)
(* C35.  Remove of a stored item finds it in whichever leaf holds it (it   *)
(* searches every subtree whose box contains the item's rectangle) and     *)
(* deletes exactly one occurrence of the handle: Count() goes down by      *)
(* exactly 1, every other stored item stays stored, and the remaining      *)
(* children of that leaf keep their relative order.                        *)
(***************************************************************************)
StoredIn(tr) == ItemsBelow(tr, tr.data)

Leaves(tr) == {n \in DOMAIN tr.nodes : tr.nodes[n].leaf}

\* The leaf the Remove search reaches last is the one it takes the item from.
HitLeaf(r) == r.visited[Len(r.visited)]

RemoveOneOK(tr, h, r) ==
    /\ r.found
    /\ Count(r.tr) = Count(tr) - 1
    /\ \A o \in StoredIn(tr) :
          Cardinality(Slots(r.tr, o)) =
              Cardinality(Slots(tr, o)) - (IF o = h THEN 1 ELSE 0)
    /\ StoredIn(r.tr) \subseteq StoredIn(tr)
    /\ tr.nodes[HitLeaf(r)].leaf
    /\ h \in SeqRange(tr.nodes[HitLeaf(r)].children)
    /\ \A n \in Leaves(tr) :
          IF n = HitLeaf(r)
          THEN IF Len(tr.nodes[n].children) = 1 THEN n \notin DOMAIN r.tr.nodes
               ELSE r.tr.nodes[n].children =
                       removeAt(tr.nodes[n].children, indexOf(tr.nodes[n].children, h))
          ELSE n \in DOMAIN r.tr.nodes
                  /\ r.tr.nodes[n].children = tr.nodes[n].children

RemoveOK(tr) ==
    \A h \in StoredIn(tr) : RemoveOneOK(tr, h, removeBBox(tr, h, fillBBox(h, tr.dim)))

C35_RemoveOne == RemoveOK(tr2) /\ RemoveOK(tr3)

\* The nodes of the tree whose box contains item h's rectangle.
Containing(tr, h) ==
    {n \in DOMAIN tr.nodes : contains(tr.nodes[n], fillBBox(h, tr.dim))}

\* A stored item lies in a leaf under the root's second or later child while
\* the box of an earlier non-leaf child of the root contains its rectangle
\* too: the search comes back from a subtree without the item.
C35_Witness ==
    \E h \in StoredIn(selTree) :
        LET root == selTree.nodes[selTree.data] IN
        /\ rootHeight(selTree) = 3
        /\ \E i, j \in 1..Len(root.children) :
              /\ i < j
              /\ root.children[i] \in Containing(selTree, h)
              /\ h \in ItemsBelow(selTree, root.children[j])

(***************************************************************************)
(* C37.  The search loop of Remove ends for every tree and every item,     *)
(* stored or not, also when the boxes of several sibling subtrees contain  *)
(* the item's rectangle: it never goes down again into a node it has just  *)
(* returned from, and it enters each node at most once.  The loop body     *)
(* runs on a leaf at most once and on another node at most twice: when the *)
(* search enters it and when it returns to it from its children.           *)
(***************************************************************************)
Occurrences(v, n) == {j \in 1..Len(v) : v[j] = n}

\* The proper ancestors of node n.
RECURSIVE Ancestors(_, _)
Ancestors(tr, n) ==
    IF n = tr.data THEN {} ELSE {ParentOf(tr, n)} \cup Ancestors(tr, ParentOf(tr, n))

\* Step j of the loop: from v[j] down to its first child, right to its next
\* sibling, or up to its parent after its last sibling.
StepDown(tr, v, j) ==
    /\ ~tr.nodes[v[j]].leaf
    /\ v[j + 1] = tr.nodes[v[j]].children[1]

StepRight(tr, v, j) ==
    /\ v[j] # tr.data
    /\ \E i \in 1..(Len(tr.nodes[ParentOf(tr, v[j])].children) - 1) :
          /\ tr.nodes[ParentOf(tr, v[j])].children[i] = v[j]
          /\ tr.nodes[ParentOf(tr, v[j])].children[i + 1] = v[j + 1]

StepUp(tr, v, j) ==
    /\ v[j] # tr.data
    /\ v[j + 1] = ParentOf(tr, v[j])
    /\ tr.nodes[v[j + 1]].children[Len(tr.nodes[v[j + 1]].children)] = v[j]

SearchWalkOK(tr, v) ==
    /\ Len(v) >= 1 /\ v[1] = tr.data
    /\ \A n \in DOMAIN tr.nodes :
          /\ tr.nodes[n].leaf => Cardinality(Occurrences(v, n)) <= 1
          /\ Cardinality(Occurrences(v, n)) <= 2
    /\ \A j \in 1..(Len(v) - 1) :
          \/ StepDown(tr, v, j) /\ \A k \in 1..(j - 1) : v[k] # v[j]
          \/ StepRight(tr, v, j)
          \/ StepUp(tr, v, j)
    /\ \A j \in 1..Len(v) :
          (\E k \in 1..(j - 1) : v[k] = v[j]) =>
              /\ j > 1 /\ StepUp(tr, v, j - 1)
              /\ j < Len(v) => ~StepDown(tr, v, j)

\* What a search that finds nothing enters: the nodes all of whose proper
\* ancestors have a box that contains the item's rectangle.
Encloses(box, bbox) ==
    \A i \in DOMAIN bbox.min : box.min[i] <= bbox.min[i] /\ bbox.max[i] <= box.max[i]

Entered(tr, bbox) ==
    {n \in DOMAIN tr.nodes : \A q \in Ancestors(tr, n) : Encloses(tr.nodes[q], bbox)}

SearchOK(tr, h) ==
    LET r == removeBBox(tr, h, fillBBox(h, tr.dim)) IN
    /\ SearchWalkOK(tr, r.visited)
    /\ SeqRange(r.visited) \subseteq Entered(tr, fillBBox(h, tr.dim))
    /\ ~r.found => SeqRange(r.visited) = Entered(tr, fillBBox(h, tr.dim))
    /\ r.found = (h \in StoredIn(tr))

C37_RemoveSearchEnds == \A h \in TreeItems(sel) : SearchOK(selTree, h)

\* The search for an item that is not stored goes down into two sibling
\* subtrees whose boxes both contain its rectangle, and returns from both.
C37_Witness ==
    \E h \in TreeItems(sel) \ present :
        LET r == removeBBox(selTree, h, fillBBox(h, selTree.dim)) IN
        \E a, b \in NonRoot(selTree) :
            /\ a # b
            /\ ParentOf(selTree, a) = ParentOf(selTree, b)
            /\ Cardinality(Occurrences(r.visited, a)) = 2
            /\ Cardinality(Occurrences(r.visited, b)) = 2

(***************************************************************************)
(* C36.  Every call of the hybrid's KNN returns, provided the caller       *)
(* callback returns: the consumer asleep in cond.Wait() is always woken,   *)
(* and only by a producer's enqueue or a producer's done signal; it never  *)
(* sleeps when no signal is to come (no lost wake-up); and both producer   *)
(* goroutines eventually end.  (A consumer asleep is in the merge, and a   *)
(* call that has returned is not asleep: that the merge always returns     *)
(* says that the sleeper is always woken.  The last conjunct: from a call  *)
(* in the merge, or producers still running, a state comes where the call  *)
(* has returned and both producers have ended.)                            *)
(***************************************************************************)
Asleep == mpc = "wait"

\* The calling goroutine is in the merge of lines 89 to 151.
InMerge == mpc \notin {"idle", "direct"}

C36_KnnReturns ==
    /\ [](Asleep => (dones < 2 /\ ~ProducersGone
                       /\ (Len(queues[0]) = 0 \/ Len(queues[1]) = 0)))
    /\ [][(Asleep /\ mpc' # "wait") =>
            \/ \E i \in {0, 1} :
                  /\ Len(queues'[i]) = Len(queues[i]) + 1
                  /\ SubSeq(queues'[i], 1, Len(queues[i])) = queues[i]
            \/ dones' = dones + 1]_vars
    /\ (InMerge \/ (MuxRun /\ ~ProducersGone)) ~> (mpc = "idle" /\ ProducersGone)

\* The consumer sleeps for the second time at least: one producer has
\* signalled done, an element was delivered, the other producer runs on.
C36_Witness ==
    /\ Asleep
    /\ dones = 1
    /\ Len(calls) >= 1

(***************************************************************************)
(* C38.  In the merge of the hybrid's KNN, while fewer than two producers  *)
(* have signalled done the consumer hands an element to the callback only  *)
(* when both queues hold one; so once a producer has finished and its      *)
(* queue is empty nothing is delivered until the other producer has        *)
(* finished too, and only then the elements still queued are delivered,    *)
(* in queue order.                                                         *)
(***************************************************************************)
Delivers == MuxRun /\ Len(calls') = Len(calls) + 1

Starved(i) == fr[i].pc = "done" /\ Len(queues[i]) = 0

\* The drain loops run: what is still queued, and how much of it the loops
\* have handed over (both producers ran to their end, so every stored item
\* was queued once).
DrainPhase == MuxRun /\ mpc \in {"drain", "cbd"}

Queued == queues[0] \o queues[1]

Drained == Len(calls) - (Cardinality(present) - Len(Queued))

DrainInOrder ==
    /\ dones = 2
    /\ Len(queues[0]) = 0 \/ Len(queues[1]) = 0
    /\ Drained \in 0..Len(Queued)
    /\ \A k \in 1..Drained :
          /\ calls[Len(calls) - Drained + k].item = Queued[k].item
          /\ calls[Len(calls) - Drained + k].dist = Queued[k].dist

C38_MergeWaitsForBoth ==
    /\ [][(Delivers /\ dones < 2) => (Len(queues[0]) > 0 /\ Len(queues[1]) > 0)]_vars
    /\ [][(MuxRun /\ dones < 2 /\ (Starved(0) \/ Starved(1))) =>
            Len(calls') <= Len(calls)]_vars
    /\ [](DrainPhase => DrainInOrder)
    /\ []((MuxRun /\ res.op = "knn" /\ res.mux /\ res.ret) =>
            (dones = 2 /\ Drained = Len(Queued)))

\* One producer had finished with its queue empty while the other still
\* ran; now both are done and the drain loops hand over the second of the
\* elements that had to wait.
C38_Witness ==
    /\ DrainPhase
    /\ mpc = "cbd"
    /\ Drained >= 2
    /\ Len(calls) > Drained

(***************************************************************************)
(* C39.  The height of a tree's root never goes down across Insert and     *)
(* Remove, except when a Remove takes the last item and leaves a fresh     *)
(* leaf root of height 1: Remove does not replace a root that is left with *)
(* a single child node by that child, so after Removes the root may be a   *)
(* non-leaf node with exactly one child.                                   *)
(***************************************************************************)
Emptiest(tr) ==
    /\ DOMAIN tr.nodes = {tr.data}
    /\ tr.nodes[tr.data] = createNode(<<>>, tr.dim)

HeightKept(pre, post) ==
    \/ rootHeight(post) >= rootHeight(pre)
    \/ Emptiest(post) /\ Count(pre) = 1

\* Every Insert and every Remove a caller may make next.
C39_HeightsFromHere ==
    /\ \A h \in TreeItems(sel) \ present : HeightKept(selTree, Insert(selTree, h))
    /\ \A h \in TreeItems(sel) :
          /\ HeightKept(selTree, Remove(selTree, h))
          /\ (h \in present /\ Count(selTree) > 1) =>
                /\ Remove(selTree, h).data = selTree.data
                /\ rootHeight(Remove(selTree, h)) = rootHeight(selTree)

C39_RootHeight ==
    /\ [][HeightKept(selTree, selTree')]_vars
    /\ [](C39_HeightsFromHere)

\* After Removes the root is a non-leaf node of height 3 with one child,
\* which in turn is not a leaf.
C39_Witness ==
    /\ nRem >= 1
    /\ rootHeight(selTree) = 3
    /\ ~selTree.nodes[selTree.data].leaf
    /\ NumChildren(selTree, selTree.data) = 1
    /\ Count(selTree) >= 2

====
